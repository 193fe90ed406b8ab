-------------------------- MODULE ReluDriverProofs --------------------------
(***************************************************************************)
(* Theorems about the Leaky ReLU driver, for any processes and any tiles,  *)
(* and about the script that runs tiles through it.                        *)
(***************************************************************************)
EXTENDS RunTile, AccelTransportProofs

LEMMA StepFrame ==
    ASSUME FrameInv, NEW t \in Threads, Step(t) PROVE FrameInv'
<1>1. CASE CallStep(t)
  BY <1>1, AcquireKeeps, WriteKeeps, CopyKeeps, UnlockKeeps, ReturnKeeps DEF CallStep
<1>2. CASE Transport(t)
  BY <1>2, PrepRxKeeps, PrepTxKeeps, SubmitRxKeeps, SubmitTxKeeps, IssueRxKeeps,
     IssueTxKeeps, WaitTxKeeps, WaitRxKeeps, DiscardKeeps DEF Transport, TileStep
<1>3. CASE relu_accept(t)
  BY <1>3, AcceptKeeps DEF relu_accept
<1>4. CASE relu_start(t)
  BY <1>4, StartKeeps DEF relu_start
<1>5. CASE relu_finish(t)
  BY <1>5, PollKeeps, FinishKeeps DEF relu_finish
<1>6. CASE relu_result(t)
  BY <1>6, ResultKeeps DEF relu_result
<1>7. CASE slope_store(t)
  <2>1. CASE Acquire(t, "store_lock", "store_reg")
    BY <2>1, AcquireKeeps
  <2>2. CASE At(t, "store") \/ At(t, "store_reg")
    BY <1>7, <2>2, Moves DEF slope_store, Acquire, Leave, Refuse, Ret, Goto, At,
                             Labels, Locked, Frame, TxLabels, RxLabels
  <2> QED BY <1>7, <2>1, <2>2 DEF slope_store
<1> QED BY <1>1, <1>2, <1>3, <1>4, <1>5, <1>6, <1>7 DEF Step

LEMMA NextFrame ==
    ASSUME FrameInv, [Next]_vars PROVE FrameInv'
<1>1. ASSUME NEW t \in Threads, Calls(t) PROVE FrameInv'
  BY <1>1, CallKeeps, InterruptKeeps DEF Calls, FileCall, Signal
<1>2. ASSUME NEW t \in Threads, Step(t) PROVE FrameInv'
  BY <1>2, StepFrame
<1>3. CASE TxDone \/ RxDone
  BY <1>3, TxDoneKeeps, RxDoneKeeps
<1>4. CASE BeatIn \/ BeatLost
  BY <1>4, BeatSentKeeps DEF BeatIn, BeatLost, threadVars
<1>5. CASE BeatOut
  BY <1>5, BeatReturnedKeeps DEF BeatOut, threadVars
<1>6. CASE UNCHANGED vars
  BY <1>6, KeepsFrame DEF vars, transportVars, threadVars, chanVars, frameVars
<1> QED BY <1>1, <1>2, <1>3, <1>4, <1>5, <1>6 DEF Next, Dma

LEMMA StepCalls ==
    ASSUME FrameInv, CallInv, NEW t \in Threads, Step(t) PROVE CallInv'
<1>1. CASE CallStep(t)
  BY <1>1, AcquireCalls, WriteCalls, CopyCalls, UnlockCalls, ReturnCalls DEF CallStep
<1>2. CASE Transport(t)
  BY <1>2, PrepRxCalls, PrepTxCalls, SubmitRxCalls, SubmitTxCalls, IssueRxCalls,
     IssueTxCalls, WaitTxCalls, WaitRxCalls, DiscardCalls DEF Transport, TileStep
<1>3. CASE relu_accept(t)
  BY <1>3, AcceptCalls DEF relu_accept
<1>4. CASE relu_start(t)
  BY <1>4, StartCalls DEF relu_start
<1>5. CASE relu_finish(t)
  BY <1>5, PollCalls, FinishCalls DEF relu_finish, Codes
<1>6. CASE relu_result(t)
  BY <1>6, ResultCalls DEF relu_result
<1>7. CASE slope_store(t)
  <2>1. CASE Acquire(t, "store_lock", "store_reg")
    BY <2>1, AcquireCalls
  <2>2. CASE At(t, "store") \/ At(t, "store_reg")
    <3>1. ret' \in [Threads -> Codes]
      BY <1>7, <2>2 DEF slope_store, Acquire, Leave, Refuse, Ret, Goto, At, CallInv, Codes
    <3> QED BY <1>7, <2>2, <3>1, MovesOnly
            DEF slope_store, Acquire, Leave, Refuse, Ret, Goto, At, Labels, Locked, Frame,
                InWrite, InRead
  <2> QED BY <1>7, <2>1, <2>2 DEF slope_store
<1> QED BY <1>1, <1>2, <1>3, <1>4, <1>5, <1>6, <1>7 DEF Step

LEMMA NextCalls ==
    ASSUME FrameInv, CallInv, [Next]_vars PROVE CallInv'
<1>1. ASSUME NEW t \in Threads, Calls(t) PROVE CallInv'
  BY <1>1, CallCalls, InterruptCalls DEF Calls, FileCall, Signal
<1>2. ASSUME NEW t \in Threads, Step(t) PROVE CallInv'
  BY <1>2, StepCalls
<1>3. CASE TxDone \/ RxDone
  BY <1>3, DoneCalls
<1>4. CASE BeatIn \/ BeatLost
  BY <1>4, BeatSentCalls DEF BeatIn, BeatLost, threadVars
<1>5. CASE BeatOut
  BY <1>5, BeatReturnedCalls DEF BeatOut, threadVars
<1>6. CASE UNCHANGED vars
  BY <1>6, KeepsCalls DEF vars, transportVars, threadVars, chanVars, callVars
<1> QED BY <1>1, <1>2, <1>3, <1>4, <1>5, <1>6 DEF Next, Dma

-----------------------------------------------------------------------------
(* The accelerator under the driver                                        *)

\* A tile has been accepted, and none of its beats has moved.
Before == {"rx_prep", "tx_prep", "rx_submit", "tx_submit", "start", "rx_issue", "tx_issue"}

StoreInv == /\ req \in [Threads -> Writes \cup Reads \cup Stores \cup {NoCall}]
            /\ \A t \in Threads : /\ pc[t] \in {"store", "store_lock", "store_reg"} => req[t] \in Stores
                                  /\ pc[t] \in {"store_lock", "store_reg"} => req[t].slope \in Slopes
            /\ slope \in Slopes

\* Idle means that nothing is inside; a tile that starts finds it idle.
IdleInv == /\ ~busy => seen = 0 /\ ~held.valid
           /\ \A t \in Threads :
                 /\ pc[t] \in Before => ~busy
                 /\ pc[t] = "tx_issue" => rx = [st |-> "issued", pos |-> 0, frame |-> t]
                 /\ pc[t] = "discard" => ~busy \/ aborted
           /\ tx.st = "issued" => seen <= tx.pos

\* Unless something was lost: while beats go in, all that went in have come
\* out but for the one held; when all have, the last one is held.
StreamInv ==
    \/ aborted
    \/ /\ tx.st = "issued" =>
             /\ rx.st = "issued" /\ rx.frame = tx.frame
             /\ tx.pos = rx.pos + (IF held.valid THEN 1 ELSE 0)
             /\ held.valid => ~held.last
       /\ busy /\ tx.st # "issued" => rx.st = "issued" /\ held.valid /\ held.last

DeviceInv == /\ busy \in BOOLEAN /\ done \in BOOLEAN /\ en \in BOOLEAN /\ aborted \in BOOLEAN
             /\ held.valid \in BOOLEAN /\ held.last \in BOOLEAN
             /\ count \in 0 .. MAX_BEATS /\ seen \in 0 .. MAX_BEATS
             /\ IdleInv /\ StreamInv

ControlInv == TransportInv /\ StoreInv /\ DeviceInv

LEMMA NextStore ==
    ASSUME ControlInv, [Next]_vars PROVE StoreInv'
<1> USE DEF ControlInv, StoreInv
<1>0. pc \in [Threads -> Labels]
  BY DEF TransportInv, FrameInv, Shape
<1>1. ASSUME NEW t \in Threads, Calls(t) PROVE StoreInv'
  BY <1>0, <1>1 DEF Calls, FileCall, Signal, Call, Interrupt, Refuse, Ret, At, devVars
<1>2. ASSUME NEW t \in Threads, CallStep(t), UNCHANGED devVars PROVE StoreInv'
  BY <1>0, <1>2 DEF CallStep, Acquire, accel_write, CopyFromUser, Unlock, Return, ToUser, Leave,
                    Refuse, Ret, Goto, At, devVars
<1>3. ASSUME NEW t \in Threads, Transport(t) PROVE StoreInv'
  BY <1>0, <1>3
     DEF Transport, TileStep, PrepRx, PrepTx, SubmitRx, SubmitTx, IssueRx, IssueTx, WaitTx,
         WaitRx, Discard, Leave, Fail, Ret, Goto, At, devVars
<1>4. ASSUME NEW t \in Threads, relu_accept(t) \/ relu_start(t) \/ relu_finish(t) \/ relu_result(t)
      PROVE  StoreInv'
  BY <1>0, <1>4 DEF relu_accept, Accept, relu_start, Start, relu_finish, Poll, Publish, Reject,
                    relu_result, Result, Leave, Ret, Goto, At, devVars
<1>5. ASSUME NEW t \in Threads, slope_store(t) PROVE StoreInv'
  BY <1>0, <1>5 DEF slope_store, Acquire, Leave, Refuse, Ret, Goto, At, devVars
<1>6. CASE Dma \/ UNCHANGED vars
  BY <1>6 DEF Dma, TxDone, RxDone, BeatIn, BeatOut, BeatLost, vars, transportVars, threadVars,
              devVars
<1> QED BY <1>1, <1>2, <1>3, <1>4, <1>5, <1>6 DEF Next, Step

\* What the steps below need of FrameInv and CallInv.
LEMMA Facts ==
    ASSUME ControlInv
    PROVE  /\ pc \in [Threads -> Labels] /\ ret \in [Threads -> Codes]
           /\ \A t \in Threads : pc[t] \in Locked => lock = t
           /\ tx \in AnyChannel /\ rx \in AnyChannel
           /\ tx.st = "issued" => tx.frame \in Threads /\ pc[tx.frame] = "wait_tx" /\ lock = tx.frame
           /\ rx.st = "issued" => rx.frame \in Threads /\ lock = rx.frame
           /\ DUPLEX
BY DuplexAssumption
   DEF ControlInv, TransportInv, FrameInv, Shape, CallInv, Exclusive, TxInv, RxInv,
       Armed, Queued, TxLabels,
       RxLabels, Locked, Frame

\* A step that moves one thread, not into a tile, and touches neither channels
\* nor accelerator.
LEMMA Apart ==
    ASSUME ControlInv, NEW t \in Threads, NEW l,
           pc' = [pc EXCEPT ![t] = l], l \notin Before \cup {"discard"},
           UNCHANGED <<tx, rx, busy, done, count, en, seen, held, aborted>>
    PROVE  DeviceInv'
BY Facts DEF ControlInv, DeviceInv, IdleInv, StreamInv, Before

LEMMA CallsDevice ==
    ASSUME ControlInv, NEW t \in Threads, Calls(t) PROVE DeviceInv'
BY Apart DEF Calls, FileCall, Signal, Call, Interrupt, Refuse, Ret, devVars, chanVars, Before

LEMMA CallStepDevice ==
    ASSUME ControlInv, NEW t \in Threads, CallStep(t), UNCHANGED <<devVars, aborted>>
    PROVE  DeviceInv'
BY Apart DEF CallStep, Acquire, accel_write, CopyFromUser, Unlock, Return, ToUser, Leave, Refuse,
             Ret, Goto, devVars, chanVars, Before

LEMMA LayerDevice ==
    ASSUME ControlInv, NEW t \in Threads, relu_finish(t) \/ relu_result(t) \/ slope_store(t)
    PROVE  DeviceInv'
BY Apart DEF relu_finish, Poll, Publish, Reject, relu_result, Result, slope_store, Acquire, Leave,
             Refuse, Ret, Goto, devVars, chanVars, Before

LEMMA AcceptDevice ==
    ASSUME ControlInv, NEW t \in Threads, relu_accept(t) \/ relu_start(t)
    PROVE  DeviceInv'
<1>1. UNCHANGED <<tx, rx, busy, done, count, seen, held, aborted>> /\ en' \in BOOLEAN
  BY DEF relu_accept, Accept, relu_start, Start, devVars, chanVars, ControlInv, DeviceInv
<1>2. \E l \in {"rx_prep", "rx_issue", "unlock"} :
         pc' = [pc EXCEPT ![t] = l] /\ (l \in Before => ~busy)
  BY Facts DEF relu_accept, Accept, relu_start, Start, Leave, Ret, Goto, At, ControlInv, DeviceInv,
               IdleInv, Before
<1> QED BY <1>1, <1>2, Facts DEF ControlInv, DeviceInv, IdleInv, StreamInv, Before

\* Nothing has been issued yet.
LEMMA PrepareDevice ==
    ASSUME ControlInv, NEW t \in Threads, UNCHANGED devVars,
           aborted' = (aborted \/ ret'[t] = "ETIMEDOUT"),
           PrepRx(t) \/ PrepTx(t) \/ SubmitRx(t) \/ SubmitTx(t)
    PROVE  DeviceInv'
<1>1. pc[t] \in {"rx_prep", "tx_prep", "rx_submit", "tx_submit"} /\ lock = t /\ ~busy
  BY Facts DEF PrepRx, PrepTx, SubmitRx, SubmitTx, At, Locked, Frame, ControlInv, DeviceInv, IdleInv,
               Before
<1>2. tx'.st # "issued"
  BY <1>1, Facts DEF PrepRx, PrepTx, SubmitRx, SubmitTx, Prepared, AnyChannel
<1>3. \E l \in Before \cup {"discard", "unlock"} : pc' = [pc EXCEPT ![t] = l] /\ l # "tx_issue"
  BY Facts DEF PrepRx, PrepTx, SubmitRx, SubmitTx, Leave, Fail, Ret, Goto, Before
<1>4. \A u \in Threads : pc[u] = "tx_issue" => u # t /\ lock = u
  BY <1>1, Facts DEF Locked, Frame
<1>5. aborted' \in BOOLEAN /\ (aborted => aborted')
  BY DEF ControlInv, DeviceInv
<1> QED BY <1>1, <1>2, <1>3, <1>4, <1>5, Facts
        DEF devVars, ControlInv, DeviceInv, IdleInv, StreamInv, Before

LEMMA IssueDevice ==
    ASSUME ControlInv, NEW t \in Threads, UNCHANGED devVars,
           aborted' = (aborted \/ ret'[t] = "ETIMEDOUT"),
           IssueRx(t) \/ IssueTx(t)
    PROVE  DeviceInv'
<1>1. pc[t] \in {"rx_issue", "tx_issue"} /\ lock = t /\ ~busy /\ tx = Queued(t)
  BY Facts DEF IssueRx, IssueTx, At, Locked, Frame, ControlInv, TransportInv, DeviceInv, IdleInv, Before,
               FrameInv, TxInv
<1>2. \A u \in Threads : pc[u] \in {"tx_issue", "rx_issue"} => u = t
  BY <1>1, Facts DEF Locked, Frame
<1>3. CASE IssueRx(t)
  <2>1. rx' = [st |-> "issued", pos |-> 0, frame |-> t]
    BY <1>1, <1>3, Facts DEF IssueRx, Issued, Queued, At, ControlInv, TransportInv, FrameInv, RxInv
  <2> QED BY <1>1, <1>2, <1>3, <2>1, Facts
          DEF IssueRx, Goto, At, Queued, devVars, ControlInv, DeviceInv, IdleInv, StreamInv, Before
<1>4. CASE IssueTx(t)
  <2>1. /\ tx' = [st |-> "issued", pos |-> 0, frame |-> t]
        /\ rx' = [st |-> "issued", pos |-> 0, frame |-> t]
    BY <1>1, <1>4, Facts DEF IssueTx, Issued, Queued, At, ControlInv, DeviceInv, IdleInv
  <2> QED BY <1>1, <1>2, <1>4, <2>1, Facts
          DEF IssueTx, Goto, At, devVars, ControlInv, DeviceInv, IdleInv, StreamInv, Before
<1> QED BY <1>3, <1>4

LEMMA WaitDevice ==
    ASSUME ControlInv, NEW t \in Threads, UNCHANGED devVars,
           aborted' = (aborted \/ ret'[t] = "ETIMEDOUT"),
           WaitTx(t) \/ WaitRx(t) \/ Discard(t)
    PROVE  DeviceInv'
<1>1. lock = t /\ pc[t] \in {"wait_tx", "wait_rx", "discard"}
  BY Facts DEF WaitTx, WaitRx, Discard, At, Locked, Frame
<1>2. \A u \in Threads : u # t => pc[u] \notin Before \cup {"discard"}
  BY <1>1, Facts DEF Locked, Frame, Before
<1>3. \E l \in {"wait_rx", "poll", "discard", "unlock"} :
        pc' = [pc EXCEPT ![t] = l] /\ (l = "discard" => aborted')
  BY Facts DEF WaitTx, WaitRx, Discard, Leave, Fail, Ret, Goto
<1>4. aborted' \in BOOLEAN /\ (aborted => aborted')
  BY DEF ControlInv, DeviceInv
<1>5. \/ aborted'
      \/ UNCHANGED <<tx, rx>>
      \/ ~busy /\ tx.st # "issued" /\ tx' = tx
  BY <1>1, Facts DEF WaitTx, WaitRx, Discard, Leave, Fail, Ret, Goto, At, ControlInv, DeviceInv, IdleInv
<1>6. tx'.st = "issued" => tx' = tx
  BY DEF WaitTx, WaitRx, Discard, NoDesc
<1> QED BY <1>1, <1>2, <1>3, <1>4, <1>5, <1>6, Facts
        DEF devVars, ControlInv, DeviceInv, IdleInv, StreamInv, Before

LEMMA DoneDevice ==
    ASSUME ControlInv, ((TxDone \/ RxDone) /\ UNCHANGED <<devVars, aborted>>) \/ UNCHANGED vars
    PROVE  DeviceInv'
BY Facts DEF TxDone, RxDone, NoDesc, vars, transportVars, threadVars, chanVars, devVars,
                ControlInv, DeviceInv, IdleInv,
             StreamInv, Before

\* What a beat on a channel does to its descriptor.
LEMMA SentShape ==
    ASSUME ControlInv, HasBeat, BeatSent
    PROVE  /\ tx'.pos = tx.pos + 1 /\ tx'.frame = tx.frame /\ tx.pos \in Nat
           /\ tx'.st = (IF TxLast THEN "moved" ELSE "issued")
           /\ tx.pos + 1 <= MAX_BEATS
<1>1. beats(req[tx.frame]) <= MAX_BEATS /\ tx.pos < beats(req[tx.frame]) /\ beats(req[tx.frame]) \in Nat
  BY Facts, BeatsBound, TransportAssumption
     DEF HasBeat, ControlInv, TransportInv, CallInv, InWrite, Frame, Within
<1>2. tx.pos \in Nat
  BY Facts DEF AnyChannel
<1> QED BY <1>1, <1>2, Facts, TransportAssumption DEF BeatSent, AnyChannel

LEMMA InDevice ==
    ASSUME ControlInv, BeatIn \/ BeatLost PROVE DeviceInv'
<1>1. /\ tx'.pos = tx.pos + 1 /\ tx'.frame = tx.frame /\ tx.pos \in Nat
      /\ tx'.st = (IF TxLast THEN "moved" ELSE "issued")
      /\ tx.pos + 1 <= MAX_BEATS
      /\ pc[tx.frame] = "wait_tx" /\ lock = tx.frame /\ tx.frame \in Threads
      /\ pc' = pc /\ rx' = rx
  BY SentShape, Facts DEF BeatIn, BeatLost, HasBeat, threadVars
<1>2. \A u \in Threads : pc[u] \notin Before \cup {"discard"}
  BY <1>1, Facts DEF Locked, Frame, Before
<1>3. tx.st = "issued" /\ held.valid = FALSE
  BY DEF BeatIn, BeatLost, HasBeat, ControlInv, DeviceInv
<1>4. CASE BeatIn
  <2>1. /\ held'.valid = TRUE /\ held'.last = TxLast /\ TxLast \in BOOLEAN
        /\ seen' = seen + 1 /\ busy' = TRUE /\ aborted' = aborted
    BY <1>4 DEF BeatIn, TxLast
  <2>2. /\ busy' \in BOOLEAN /\ done' \in BOOLEAN /\ en' \in BOOLEAN /\ aborted' \in BOOLEAN
        /\ held'.valid \in BOOLEAN /\ held'.last \in BOOLEAN /\ count' \in 0 .. MAX_BEATS
    BY <1>4, <2>1 DEF BeatIn, ControlInv, DeviceInv
  <2>3. seen' \in 0 .. MAX_BEATS /\ seen' <= tx'.pos
    BY <1>1, <1>3, <2>1, TransportAssumption DEF ControlInv, DeviceInv, IdleInv
  <2>4. IdleInv'
    BY <1>1, <1>2, <2>1, <2>3 DEF IdleInv, Before
  <2>5. StreamInv'
    <3>1. CASE aborted
      BY <2>1, <3>1 DEF StreamInv
    <3>2. CASE ~aborted
      <4>1. rx.st = "issued" /\ rx.frame = tx.frame /\ tx.pos = rx.pos /\ rx.pos \in Nat
        BY <1>1, <1>3, <3>2, Facts DEF ControlInv, DeviceInv, StreamInv, AnyChannel
      <4>2. tx'.pos = rx'.pos + (IF held'.valid THEN 1 ELSE 0)
        BY <4>1, <2>1, <1>1
      <4> QED BY <4>1, <4>2, <2>1, <1>1 DEF StreamInv
    <3> QED BY <3>1, <3>2
  <2> QED BY <2>2, <2>3, <2>4, <2>5 DEF DeviceInv
<1>5. CASE BeatLost
  <2>1. seen <= tx'.pos
    BY <1>1, <1>3, TransportAssumption DEF ControlInv, DeviceInv, IdleInv
  <2> QED BY <1>1, <1>2, <1>5, <2>1 DEF BeatLost, ControlInv, DeviceInv, IdleInv, StreamInv, Before
<1> QED BY <1>4, <1>5

LEMMA OutDevice ==
    ASSUME ControlInv, BeatOut PROVE DeviceInv'
<1> DEFINE s == IF held.last \/ rx.pos + 1 = beats(req[rx.frame]) THEN "moved" ELSE "issued"
<1>1. rx' = [st |-> s, pos |-> rx.pos + 1, frame |-> rx.frame] /\ rx.pos \in Nat
  BY Facts DEF BeatOut, BeatReturned, AnyChannel
<1>2. /\ held.valid /\ busy /\ rx.st = "issued" /\ held'.valid = FALSE /\ held'.last = FALSE
      /\ busy' = ~held.last /\ pc' = pc /\ tx' = tx /\ aborted' = aborted
      /\ seen' = (IF held.last THEN 0 ELSE seen)
  BY DEF BeatOut, HasRoom, Empty, threadVars, ControlInv, DeviceInv, IdleInv
<1>3. /\ busy' \in BOOLEAN /\ done' \in BOOLEAN /\ en' \in BOOLEAN /\ aborted' \in BOOLEAN
      /\ count' \in 0 .. MAX_BEATS /\ seen' \in 0 .. MAX_BEATS
  BY TransportAssumption DEF BeatOut, ControlInv, DeviceInv
<1>4. IdleInv'
  <2>1. tx'.st = "issued" => seen' <= tx'.pos
    BY <1>2, Facts DEF ControlInv, DeviceInv, IdleInv, AnyChannel
  <2>2. \A u \in Threads : pc[u] \notin Before /\ (pc[u] = "discard" => aborted)
    BY <1>2 DEF ControlInv, DeviceInv, IdleInv
  <2>3. ~busy' => seen' = 0
    BY <1>2
  <2> QED BY <1>2, <2>1, <2>2, <2>3 DEF IdleInv, Before
<1>5. StreamInv'
  <2>1. CASE aborted
    BY <1>2, <2>1 DEF StreamInv
  <2>2. CASE ~aborted /\ held.last
    <3>1. tx.st # "issued" /\ ~busy'
      BY <1>2, <2>2 DEF ControlInv, DeviceInv, StreamInv
    <3> QED BY <1>2, <3>1 DEF StreamInv
  <2>3. CASE ~aborted /\ ~held.last
    <3>1. tx.st = "issued" /\ rx.frame = tx.frame /\ tx.pos = rx.pos + 1
      BY <1>2, <2>3 DEF ControlInv, DeviceInv, StreamInv
    <3>2. rx.pos + 1 < beats(req[rx.frame])
      BY <3>1 DEF ControlInv, TransportInv, CallInv, Within
    <3>3. s = "issued"
      BY <2>3, <3>2, <1>1, Facts, BeatsBound, <3>1, TransportAssumption
         DEF ControlInv, TransportInv, CallInv, InWrite, Frame
    <3> HIDE DEF s
    <3> QED BY <1>1, <1>2, <3>1, <3>3 DEF StreamInv
  <2> QED BY <2>1, <2>2, <2>3
<1> QED BY <1>2, <1>3, <1>4, <1>5 DEF DeviceInv

LEMMA NextDevice ==
    ASSUME ControlInv, [Next]_vars PROVE DeviceInv'
<1>1. ASSUME NEW t \in Threads, Calls(t) \/ Step(t) PROVE DeviceInv'
  BY <1>1, CallsDevice, CallStepDevice, LayerDevice, AcceptDevice, PrepareDevice, IssueDevice,
     WaitDevice DEF Step, Transport, TileStep
<1>2. CASE Dma \/ UNCHANGED vars
  BY <1>2, DoneDevice, InDevice, OutDevice DEF Dma
<1> QED BY <1>1, <1>2 DEF Next

-----------------------------------------------------------------------------
(* The transactional device                                                *)

\* What the accelerator should make of a beat of a tile.
Golden(t, i) == Relu(Beat(req[t].tile, i), slope)
IsGolden(t, n) == \A i \in 1 .. n : rxbuf[i] = Golden(t, i)

\* How many beats of its tile have gone in.
Sent(t) == IF tx.st = "issued" THEN tx.pos ELSE beats(req[t])

\* The return transfer runs: as many beats counted as have come out or are
\* held, no more than went in; while none is lost they are the tile's.
Receiving(t) ==
    /\ seen = rx.pos + (IF held.valid THEN 1 ELSE 0) /\ seen <= Sent(t)
    /\ held.valid /\ held.last => Sent(t) = beats(req[t])
    /\ seen = Sent(t) =>
          /\ IsGolden(t, rx.pos)
          /\ held.valid => /\ held.data = Golden(t, seen)
                           /\ Sent(t) = beats(req[t]) => held.last

\* It is over: COUNT vouches for the receive buffer.
Vouched(t) == /\ tx.st # "issued"
              /\ count = beats(req[t]) => IsGolden(t, beats(req[t]))

TileInv ==
    /\ rxbuf = [i \in 1 .. MAX_BEATS |-> rxbuf[i]]
    /\ \A t \in Threads :
          /\ pc[t] \in {"wait_tx", "wait_rx", "poll", "finish"} =>
                IF rx.st = "issued" THEN Receiving(t) ELSE Vouched(t)
          /\ pc[t] \in Frame => received = 0
    /\ received # 0 => received \div BEAT_BYTES # 0

DriverInv == ControlInv /\ TileInv

\* What the steps below need of ControlInv, beside Facts.
LEMMA TileFacts ==
    ASSUME DriverInv
    PROVE  /\ \A t, u \in Threads : pc[t] \in Locked /\ pc[u] \in Locked => t = u
           /\ \A t \in Threads : pc[t] \in InWrite =>
                 Sized(req[t]) /\ beats(req[t]) \in 1 .. MAX_BEATS
           /\ \A t \in Threads : pc[t] \in Frame => txbuf = req[t].tile
           /\ tx.st = "issued" => tx.pos < beats(req[tx.frame])
           /\ rx.st = "issued" => pc[rx.frame] \in RxLabels
           /\ returned => rx.st # "issued"
           /\ ~busy => seen = 0 /\ ~held.valid
           /\ tx.pos \in Nat /\ rx.pos \in Nat /\ seen \in Nat /\ held.valid \in BOOLEAN
BY Facts, BeatsBound
   DEF DriverInv, ControlInv, TransportInv, FrameInv, CallInv, ReplyInv, DeviceInv, IdleInv, Exclusive,
       RxInv, Armed, Within, AnyChannel

TileLabels == {"wait_tx", "wait_rx", "poll", "finish"}

\* A thread moves, not to a label of which the invariant asks something.
LEMMA TileApart ==
    ASSUME DriverInv, NEW t \in Threads, NEW l,
           pc' = [pc EXCEPT ![t] = l], l \notin TileLabels, pc[t] \notin TileLabels,
           l \in Frame => received' = 0,
           \A u \in Threads \ {t} : req'[u] = req[u],
           received' \in {0, received},
           \A u \in Threads : pc[u] \in TileLabels =>
               UNCHANGED <<tx, rx, seen, held, count, slope>>,
           UNCHANGED rxbuf
    PROVE  TileInv'
<1>1. \A u \in Threads : pc'[u] = IF u = t THEN l ELSE pc[u]
  BY Facts DEF DriverInv
<1>2. ASSUME NEW u \in Threads, pc'[u] \in TileLabels
      PROVE  IF rx'.st = "issued" THEN Receiving(u)' ELSE Vouched(u)'
  <2>1. u # t /\ pc[u] \in TileLabels /\ UNCHANGED <<tx, rx, seen, held, count, slope>>
    BY <1>1, <1>2
  <2>2. req'[u] = req[u] /\ rxbuf' = rxbuf /\ pc'[u] = pc[u]
    BY <1>1, <2>1
  <2>3. IF rx.st = "issued" THEN Receiving(u) ELSE Vouched(u)
    BY <2>1 DEF DriverInv, TileInv, TileLabels
  <2>4. Receiving(u) => Receiving(u)'
    BY <2>1, <2>2 DEF Receiving, Sent, IsGolden, Golden
  <2>5. Vouched(u) => Vouched(u)'
    BY <2>1, <2>2 DEF Vouched, Sent, IsGolden, Golden
  <2> QED BY <2>1, <2>3, <2>4, <2>5
<1>3. \A u \in Threads : pc'[u] \in Frame => received' = 0
  BY <1>1 DEF DriverInv, TileInv
<1> QED BY <1>2, <1>3 DEF DriverInv, TileInv, TileLabels

LEMMA CallsTile ==
    ASSUME DriverInv, NEW t \in Threads,
           Calls(t) \/ (CallStep(t) /\ UNCHANGED devVars) \/ relu_result(t)
    PROVE  TileInv'
<1>1. /\ UNCHANGED <<seen, held, count, slope, rxbuf, tx, rx>>
      /\ pc[t] \in {"user", "write_lock", "read_lock", "write", "copy_in", "unlock", "return", "result"}
      /\ \A u \in Threads \ {t} : req'[u] = req[u]
  BY DEF Calls, FileCall, Signal, Call, Interrupt, CallStep, Acquire, accel_write, CopyFromUser,
         Unlock, Return, ToUser, relu_result, Result, Leave, Refuse, Ret, Goto, At, devVars,
         chanVars, DriverInv, ControlInv, TransportInv, CallInv
<1>2. \/ /\ received' = received
         /\ \E l \in {"write", "read_lock", "store", "return", "copy_in", "result", "write_lock",
                      "unlock", "user"} : pc' = [pc EXCEPT ![t] = l]
      \/ received' = 0 /\ pc' = [pc EXCEPT ![t] = "accept"]
  BY DEF Calls, FileCall, Signal, Call, Interrupt, CallStep, Acquire, accel_write, CopyFromUser,
         Unlock, Return, ToUser, relu_result, Result, Leave, Refuse, Ret, Goto
<1> QED BY <1>1, <1>2, TileApart DEF TileLabels, Frame

LEMMA StoreTile ==
    ASSUME DriverInv, NEW t \in Threads, slope_store(t) PROVE TileInv'
<1>1. /\ UNCHANGED <<seen, held, count, rxbuf, tx, rx, received, req>>
      /\ pc[t] \in {"store", "store_lock", "store_reg"}
      /\ slope' = slope \/ \A u \in Threads : pc[u] \notin TileLabels
  BY TileFacts DEF slope_store, Acquire, Leave, Refuse, Ret, Goto, At, devVars, chanVars, TileLabels,
                   Locked, Frame
<1>2. \E l \in {"return", "store_lock", "store_reg", "unlock"} : pc' = [pc EXCEPT ![t] = l]
  BY DEF slope_store, Acquire, Leave, Refuse, Ret, Goto
<1> QED BY <1>1, <1>2, TileApart DEF TileLabels, Frame

\* Inside accel_run_tile, before the transfers run.
LEMMA PrepareTile ==
    ASSUME DriverInv, NEW t \in Threads,
           \/ relu_accept(t) \/ relu_start(t)
           \/ /\ UNCHANGED devVars
              /\ \/ PrepRx(t) \/ PrepTx(t) \/ SubmitRx(t) \/ SubmitTx(t)
                 \/ IssueRx(t) \/ Discard(t)
    PROVE  TileInv'
<1>1. /\ pc[t] \in Frame \ TileLabels /\ UNCHANGED <<received, req, rxbuf>>
      /\ \E l \in {"rx_prep", "tx_prep", "rx_submit", "tx_submit", "start", "rx_issue", "tx_issue",
                   "discard", "unlock"} : pc' = [pc EXCEPT ![t] = l]
  BY DEF relu_accept, Accept, relu_start, Start, PrepRx, PrepTx, SubmitRx, SubmitTx, IssueRx, Discard,
         Leave, Fail, Ret, Goto, At, devVars, chanVars, TileLabels, Frame
<1>2. received = 0 /\ \A u \in Threads : pc[u] \notin TileLabels
  BY <1>1, TileFacts DEF DriverInv, TileInv, TileLabels, Locked, Frame
<1> QED BY <1>1, <1>2, TileApart DEF TileLabels

LEMMA IssueTile ==
    ASSUME DriverInv, NEW t \in Threads, UNCHANGED devVars, IssueTx(t) PROVE TileInv'
<1>1. /\ pc[t] = "tx_issue" /\ ~busy /\ seen = 0 /\ ~held.valid
      /\ rx = [st |-> "issued", pos |-> 0, frame |-> t] /\ tx = Queued(t)
      /\ received = 0 /\ beats(req[t]) \in 1 .. MAX_BEATS
      /\ \A u \in Threads : u # t => pc[u] \notin Frame
  BY TileFacts DEF IssueTx, At, DriverInv, ControlInv, TransportInv, FrameInv, TxInv, DeviceInv,
                   IdleInv, TileInv, Before, InWrite, Locked, Frame
<1>2. /\ tx' = [st |-> "issued", pos |-> 0, frame |-> t] /\ pc' = [pc EXCEPT ![t] = "wait_tx"]
      /\ UNCHANGED <<req, rx, received, seen, held, count, slope, rxbuf>>
  BY <1>1 DEF IssueTx, Issued, Queued, Goto, devVars
<1>3. Receiving(t)'
  BY <1>1, <1>2 DEF Receiving, Sent, IsGolden
<1>4. \A u \in Threads : u # t => pc'[u] \notin TileLabels
  BY <1>1, <1>2 DEF TileLabels, Frame
<1> QED BY <1>1, <1>2, <1>3, <1>4 DEF DriverInv, TileInv, TileLabels

LEMMA WaitTile ==
    ASSUME DriverInv, NEW t \in Threads, UNCHANGED devVars,
           WaitTx(t) \/ WaitRx(t) \/ Poll(t, done, "finish")
    PROVE  TileInv'
<1>1. /\ pc[t] \in {"wait_tx", "wait_rx", "poll"} /\ UNCHANGED <<req, received, rxbuf>>
      /\ \A u \in Threads : u # t => pc[u] \notin Frame
  BY TileFacts DEF WaitTx, WaitRx, Poll, Leave, Fail, Ret, Goto, At, devVars, chanVars, Locked, Frame
<1>2. received = 0
  BY <1>1 DEF DriverInv, TileInv, Frame
<1>3. CASE \E l \in {"discard", "unlock"} : pc' = [pc EXCEPT ![t] = l]
  <2>1. \A u \in Threads : pc'[u] \notin TileLabels
    BY <1>1, <1>3, Facts DEF DriverInv, TileLabels, Frame
  <2> QED BY <1>1, <1>2, <2>1 DEF DriverInv, TileInv, TileLabels
<1>4. CASE UNCHANGED <<tx, rx>> /\ \E l \in {"wait_rx", "poll", "finish"} : pc' = [pc EXCEPT ![t] = l]
  <2>1. \A u \in Threads : pc'[u] \in TileLabels => u = t
    BY <1>1, <1>4, Facts DEF DriverInv, TileLabels, Frame
  <2>2. Receiving(t)' = Receiving(t) /\ Vouched(t)' = Vouched(t)
    BY <1>1, <1>4 DEF devVars, Receiving, Vouched, Sent, IsGolden, Golden
  <2> QED BY <1>1, <1>2, <1>4, <2>1, <2>2 DEF DriverInv, TileInv, TileLabels
<1> QED BY <1>3, <1>4 DEF WaitTx, WaitRx, Poll, Leave, Fail, Ret, Goto, chanVars

\* finish compares COUNT with the beats of the tile before it publishes.
LEMMA FinishTile ==
    ASSUME DriverInv, NEW t \in Threads, relu_finish(t) PROVE TileInv'
<1>1. CASE Poll(t, done, "finish")
  BY <1>1, WaitTile DEF relu_finish
<1>2. CASE At(t, "finish") /\ (Publish(t) \/ Reject(t, "EIO"))
  <2>1. /\ pc[t] = "finish" /\ pc' = [pc EXCEPT ![t] = "unlock"] /\ UNCHANGED <<req, rxbuf>>
        /\ \A u \in Threads : u # t => pc[u] \notin Frame
    BY <1>2, TileFacts DEF relu_finish, Publish, Reject, Leave, Ret, At, devVars, Locked, Frame
  <2>2. \A u \in Threads : pc'[u] \notin Frame
    BY <2>1, Facts DEF DriverInv, Frame
  <2>3. received' = received \/ received' = req[t].bytes
    BY <1>2 DEF Publish, Reject
  <2>4. req[t].bytes \div BEAT_BYTES # 0
    BY <2>1, TileFacts DEF InWrite, Frame, beats
  <2> QED BY <2>1, <2>2, <2>3, <2>4 DEF DriverInv, TileInv, Frame
<1> QED BY <1>1, <1>2 DEF relu_finish

LEMMA DoneTile ==
    ASSUME DriverInv, ((TxDone \/ RxDone) /\ UNCHANGED devVars) \/ UNCHANGED vars
    PROVE  TileInv'
<1>1. /\ UNCHANGED <<pc, req, received, seen, held, count, slope, rxbuf>>
      /\ tx' = tx \/ (tx.st # "issued" /\ tx'.st # "issued")
      /\ rx' = rx \/ (rx.st # "issued" /\ rx'.st # "issued")
  BY DEF TxDone, RxDone, NoDesc, vars, transportVars, threadVars, chanVars, devVars
<1>2. \A t \in Threads : Sent(t)' = Sent(t)
  BY <1>1 DEF Sent
<1>3. \A t \in Threads : /\ rx.st = "issued" => Receiving(t)' = Receiving(t)
                         /\ Vouched(t)' = Vouched(t)
  BY <1>1, <1>2 DEF Receiving, Vouched, IsGolden, Golden
<1> QED BY <1>1, <1>3 DEF DriverInv, TileInv

\* A beat goes in, and may be lost there.
LEMMA SentTile ==
    ASSUME DriverInv, BeatIn \/ BeatLost PROVE TileInv'
<1>1. PICK f \in Threads : f = tx.frame /\ pc[f] = "wait_tx"
  BY Facts DEF BeatIn, BeatLost, HasBeat, DriverInv
<1>2. /\ tx.st = "issued" /\ held.valid = FALSE /\ tx.pos < beats(req[f])
      /\ tx'.pos = tx.pos + 1 /\ tx'.st = (IF TxLast THEN "moved" ELSE "issued")
      /\ TxLast <=> tx.pos + 1 = beats(req[f])
      /\ UNCHANGED <<pc, req, rx, received, count, slope, rxbuf>>
      /\ txbuf = req[f].tile
  BY <1>1, SentShape, TileFacts DEF BeatIn, BeatLost, HasBeat, TxLast, threadVars, DriverInv, Frame
<1>3. rx.st = "issued" /\ Receiving(f)
  BY <1>1, <1>2 DEF DriverInv, TileInv, Vouched
<1>4. Sent(f) = tx.pos /\ Sent(f)' = tx.pos + 1
  BY <1>2 DEF Sent
<1>5. Receiving(f)'
  <2>1. CASE BeatIn
    <3>1. /\ held'.valid = TRUE /\ held'.last = TxLast /\ seen' = seen + 1
          /\ held'.data = Golden(f, tx.pos + 1)
      BY <1>2, <2>1 DEF BeatIn, Golden
    <3>2. seen = rx.pos /\ seen <= tx.pos /\ (seen = tx.pos => IsGolden(f, rx.pos))
      BY <1>2, <1>3, <1>4, TileFacts DEF Receiving
    <3>3. seen' = rx'.pos + (IF held'.valid THEN 1 ELSE 0) /\ seen' <= Sent(f)'
      BY <1>2, <1>4, <3>1, <3>2, TileFacts
    <3>4. Sent(f)' = beats(req[f])' <=> TxLast
      BY <1>2, <1>4
    <3>5. seen' = Sent(f)' => seen = tx.pos /\ seen' = tx.pos + 1
      BY <1>4, <3>1, <3>2, TileFacts
    <3>6. IsGolden(f, rx.pos)' <=> IsGolden(f, rx.pos)
      BY <1>2 DEF IsGolden, Golden
    <3>7. Golden(f, seen)' = Golden(f, seen')
      BY <1>2 DEF Golden
    <3> QED BY <3>1, <3>2, <3>3, <3>4, <3>5, <3>6, <3>7 DEF Receiving
  <2>2. CASE BeatLost
    <3>1. UNCHANGED <<seen, held>> /\ seen < Sent(f)' /\ seen = rx.pos
      BY <1>2, <1>3, <1>4, <2>2, TileFacts DEF BeatLost, Receiving
    <3> QED BY <1>2, <1>4, <3>1, TileFacts DEF Receiving
  <2> QED BY <2>1, <2>2
<1>6. \A u \in Threads : pc[u] \in TileLabels => u = f
  BY <1>1, TileFacts DEF TileLabels, Locked, Frame
<1> QED BY <1>2, <1>3, <1>5, <1>6 DEF DriverInv, TileInv, TileLabels

\* A beat comes out.
LEMMA OutTile ==
    ASSUME DriverInv, BeatOut PROVE TileInv'
<1>1. PICK r \in Threads : r = rx.frame /\ pc[r] \in RxLabels
  BY Facts, TileFacts DEF BeatOut, HasRoom, DriverInv
<1>2. \A u \in Threads : pc[u] \in Locked => u = r
  BY <1>1, TileFacts DEF RxLabels, TxLabels, Locked, Frame
<1>3. received = 0 /\ UNCHANGED <<pc, req, tx, received, slope>> /\ rx.st = "issued" /\ held.valid
  BY <1>1 DEF BeatOut, HasRoom, threadVars, DriverInv, TileInv, RxLabels, TxLabels, Frame
<1>4. rxbuf' = [rxbuf EXCEPT ![rx.pos + 1] = held.data] /\ rxbuf' = [i \in 1 .. MAX_BEATS |-> rxbuf'[i]]
  BY DEF BeatOut, DriverInv, TileInv
<1>5. CASE pc[r] \notin {"wait_tx", "wait_rx"}
  <2>1. \A u \in Threads : pc[u] \notin TileLabels
    BY <1>1, <1>2, <1>5 DEF TileLabels, Locked, Frame, RxLabels, TxLabels
  <2> QED BY <1>3, <1>4, <2>1 DEF DriverInv, TileInv, TileLabels
<1>6. CASE pc[r] \in {"wait_tx", "wait_rx"}
  <2> DEFINE b == beats(req[r])
  <2>1. Receiving(r) /\ b \in 1 .. MAX_BEATS /\ rx.pos \in Nat /\ seen = rx.pos + 1
    BY <1>3, <1>6, TileFacts DEF DriverInv, TileInv, InWrite, Frame, Receiving
  <2>2. tx.st = "issued" => tx.pos < b /\ tx.pos \in Nat
    BY <1>2, Facts, TileFacts DEF DriverInv, Locked, Frame
  <2>3. Sent(r) <= b /\ (Sent(r) = b => tx.st # "issued") /\ Sent(r) \in Nat
    BY <2>1, <2>2 DEF Sent
  <2>4. seen <= Sent(r) /\ (seen = b => held.last)
    BY <1>3, <2>1, <2>3 DEF Receiving
  <2>5. rx' = [st |-> IF held.last \/ rx.pos + 1 = b THEN "moved" ELSE "issued", pos |-> rx.pos + 1,
               frame |-> r]
    BY <1>1, Facts DEF BeatOut, BeatReturned, AnyChannel, DriverInv
  <2>6. ASSUME seen = Sent(r), NEW i \in 1 .. seen PROVE rxbuf'[i] = Golden(r, i)'
    <3>1. held.data = Golden(r, seen) /\ IsGolden(r, rx.pos)
      BY <1>3, <2>1, <2>6 DEF Receiving
    <3>2. rxbuf'[i] = IF i = rx.pos + 1 THEN held.data ELSE rxbuf[i]
      BY <1>4, <2>1, <2>3, <2>4, <2>6, TransportAssumption DEF DriverInv, TileInv
    <3>3. Golden(r, i)' = Golden(r, i)
      BY <1>3 DEF Golden
    <3> QED BY <2>1, <3>1, <3>2, <3>3 DEF IsGolden
  <2>7. CASE held.last
    <3>1. Sent(r) = b /\ rx'.st = "moved" /\ count' = seen
      BY <1>3, <2>1, <2>5, <2>7 DEF Receiving, BeatOut
    <3>2. seen = b => IsGolden(r, b)'
      BY <1>3, <2>1, <2>6, <3>1 DEF IsGolden, Golden
    <3>3. Vouched(r)'
      BY <1>3, <2>3, <3>1, <3>2 DEF Vouched
    <3> QED BY <1>2, <1>3, <1>4, <1>6, <3>1, <3>3 DEF DriverInv, TileInv, Locked, Frame
  <2>8. CASE ~held.last
    <3>1. rx'.st = "issued" /\ rx'.pos = seen /\ seen' = seen /\ held'.valid = FALSE
      BY <2>1, <2>4, <2>5, <2>8 DEF BeatOut, Empty
    <3>2. Sent(r)' = Sent(r)
      BY <1>3 DEF Sent
    <3>3. seen = Sent(r) => IsGolden(r, rx.pos)'
      BY <2>6, <3>1 DEF IsGolden
    <3>4. Receiving(r)'
      BY <2>1, <2>4, <3>1, <3>2, <3>3 DEF Receiving
    <3> QED BY <1>2, <1>3, <1>4, <1>6, <3>1, <3>4 DEF DriverInv, TileInv, Locked, Frame
  <2> QED BY <2>7, <2>8
<1> QED BY <1>5, <1>6

LEMMA NextTile ==
    ASSUME DriverInv, [Next]_vars PROVE TileInv'
<1>1. ASSUME NEW t \in Threads, Calls(t) \/ Step(t) PROVE TileInv'
  <2>1. CASE Transport(t)
    BY <2>1, PrepareTile, IssueTile, WaitTile DEF Transport, TileStep
  <2> QED BY <1>1, <2>1, CallsTile, PrepareTile, FinishTile, StoreTile DEF Step
<1>2. CASE Dma \/ UNCHANGED vars
  BY <1>2, DoneTile, SentTile, OutTile DEF Dma
<1> QED BY <1>1, <1>2 DEF Next

LEMMA NextReply ==
    ASSUME DriverInv, [Next]_vars PROVE ReplyInv'
<1> USE DEF DriverInv, ControlInv
<1>1. ASSUME NEW t \in Threads, Calls(t) PROVE ReplyInv'
  BY <1>1, CallEffect, InterruptEffect DEF Calls, FileCall, Signal
<1>2. ASSUME NEW t \in Threads, CallStep(t) PROVE ReplyInv'
  BY <1>2, AcquireEffect, WriteEffect, CopyEffect, ReturnEffect DEF CallStep
<1>3. ASSUME NEW t \in Threads, Transport(t) PROVE ReplyInv'
  BY <1>3, TileEffect DEF Transport
<1>4. ASSUME NEW t \in Threads, relu_accept(t) \/ relu_start(t) \/ relu_finish(t) \/ relu_result(t)
      PROVE  ReplyInv'
  BY <1>4, AcceptEffect, StartEffect, PollEffect, PublishEffect, RejectEffect, ResultEffect
     DEF relu_accept, relu_start, relu_finish, relu_result
<1>5. ASSUME NEW t \in Threads, slope_store(t) PROVE ReplyInv'
  <2>1. CASE Acquire(t, "store_lock", "store_reg")
    BY <2>1, AcquireEffect
  <2>2. CASE At(t, "store") \/ At(t, "store_reg")
    BY <1>5, <2>2, ReplyPasses, ReplyDecides
       DEF slope_store, Acquire, Leave, Refuse, At, Codes, Frame
  <2> QED BY <1>5, <2>1, <2>2 DEF slope_store
<1>6. CASE Dma \/ UNCHANGED vars
  BY <1>6, KeepsReply DEF Dma, BeatIn, BeatLost, BeatOut, TxDone, RxDone, vars, transportVars,
                          threadVars
<1> QED BY <1>1, <1>2, <1>3, <1>4, <1>5, <1>6 DEF Next, Step

LEMMA InitDriver ==
    ASSUME Init PROVE DriverInv
<1>1. StoreInv
  BY SlopeAssumption DEF Init, TransportInit, StoreInv, Slopes
<1>2. /\ \A t \in Threads : pc[t] = "user"
      /\ tx.st = "none" /\ ~held.valid /\ held.valid \in BOOLEAN /\ held.last \in BOOLEAN
      /\ received = 0
  BY DEF Init, Empty, NoDesc, TransportInit
<1>3. IdleInv /\ StreamInv
  BY <1>2 DEF Init, IdleInv, StreamInv, Before
<1>4. DeviceInv
  <2>1. count \in 0 .. MAX_BEATS /\ seen \in 0 .. MAX_BEATS
    BY TransportAssumption DEF Init
  <2>2. busy \in BOOLEAN /\ done \in BOOLEAN /\ en \in BOOLEAN /\ aborted \in BOOLEAN
    BY Zenon DEF Init
  <2> QED BY <1>2, <1>3, <2>1, <2>2 DEF DeviceInv
<1>5. TileInv
  BY <1>2 DEF Init, TileInv, Frame
<1> QED BY <1>1, <1>4, <1>5, InitFrame, InitCalls, InitReply
        DEF Init, DriverInv, ControlInv, TransportInv

LEMMA DriverInvariant == Spec => []DriverInv
<1>1. DriverInv /\ [Next]_vars => DriverInv'
  BY NextFrame, NextCalls, NextReply, NextStore, NextDevice, NextTile
     DEF DriverInv, ControlInv, TransportInv
<1> QED BY <1>1, InitDriver, PTL DEF Spec

\* Every variable of the driver keeps its type: COUNT and the beats counted
\* never exceed the buffer, through aborted and lost transfers too.
THEOREM ReluDriverTyped == Spec => []TypeOK
<1>1. DriverInv => TypeOK
  BY TransportTyped DEF DriverInv, ControlInv, TransportInv, StoreInv, DeviceInv, TypeOK
<1> QED BY <1>1, DriverInvariant, PTL

\* No callback outlives the stack frame its completion is on, whatever fails,
\* times out or completes late (accel_transport.c 121-122, 190-221), for any
\* number of processes and any size of tile.
THEOREM NoCallbackIntoDeadFrame == Spec => []NoDeadCallback
<1>1. DriverInv => NoDeadCallback
  BY FrameInvImplies DEF DriverInv, ControlInv, TransportInv
<1> QED BY <1>1, DriverInvariant, PTL

\* Whenever the lock is free the accelerator is idle, unless a transfer timed
\* out or a beat was lost (accel_transport.c 164-179, relu.c 77-121).
THEOREM OnlyATimeoutWedges == Spec => []OnlyTimeoutsWedge
<1>1. DriverInv => OnlyTimeoutsWedge
  <2> SUFFICES ASSUME DriverInv, lock = NoThread, busy, ~aborted PROVE FALSE
    BY DEF OnlyTimeoutsWedge
  <2>1. rx.st = "issued"
    BY DEF DriverInv, ControlInv, DeviceInv, StreamInv
  <2> QED BY <2>1, Facts, TransportAssumption DEF DriverInv
<1> QED BY <1>1, DriverInvariant, PTL

-----------------------------------------------------------------------------
(* Every step is one of TileDevice, or none                                *)

LEMMA AbortMaps ==
    ASSUME NEW t \in Threads, Aborts(t), UNCHANGED <<Results, slope>> PROVE Device!Next
BY DEF Aborts, Device!Next, Device!Abort, Device!Decide, Got

LEMMA QuietMaps ==
    ASSUME Quiet, UNCHANGED <<Results, slope>> PROVE UNCHANGED Device!vars
BY DEF Quiet, Device!vars, Got

\* A tile that begins forgets the last one.
LEMMA BeginMaps ==
    ASSUME NEW t \in Threads, Begins(t), received' = 0, UNCHANGED slope PROVE Device!Next
BY DEF Begins, Device!Next, Device!Begin, Results, Got

LEMMA CallMaps ==
    ASSUME NEW t \in Threads, NEW r \in Writes \cup Reads \cup Stores, Enters(t, r),
           UNCHANGED <<Results, slope>>
    PROVE  Device!Next
BY DEF Enters, Device!Next, Device!Call, Got

LEMMA ReturnMaps ==
    ASSUME DriverInv, NEW t \in Threads, Returns(t), UNCHANGED <<Results, slope>> PROVE Device!Next
<1>1. Got' = [Got EXCEPT ![t] = NoResult]
  BY DEF Returns, Got, DriverInv, ControlInv, TransportInv, ReplyInv
<1> QED BY <1>1 DEF Returns, Device!Next, Device!Return

\* A store is decided, and for good: the register changes or it does not.
LEMMA StoreMaps ==
    ASSUME DriverInv, NEW t \in Threads, slope_store(t), UNCHANGED Results
    PROVE  Device!Next \/ UNCHANGED Device!vars
<1>0. /\ req[t] \in Stores /\ req[t] # NoCall /\ ret[t] = "none"
      /\ pc[t] \in {"store", "store_lock", "store_reg"} /\ TransportInv
  BY DEF slope_store, Acquire, At, DriverInv, ControlInv, TransportInv, StoreInv, ReplyInv, Stores,
         NoCall
<1>1. CASE /\ At(t, "store") /\ UNCHANGED <<lock, slope>>
           /\ Refuse(t, "EINVAL") \/ Refuse(t, "ERANGE")
  BY <1>0, <1>1, Decides, AbortMaps DEF Refuse, Codes, InTile, Frame, Aborts
<1>2. CASE At(t, "store") /\ UNCHANGED <<lock, slope>> /\ Goto(t, "store_lock")
  BY <1>0, <1>2, Passes, QuietMaps DEF TransportInv, At, InTile, Frame
<1>3. CASE Acquire(t, "store_lock", "store_reg") /\ UNCHANGED slope
  BY <1>0, <1>3, AcquireEffect, QuietMaps
<1>4. CASE At(t, "store_reg") /\ slope' = req[t].slope /\ Leave(t, "ok") /\ UNCHANGED lock
  <2>1. Owner = NoThread
    BY <1>0, <1>4, OwnerRuns DEF TransportInv, At, Locked, InTile, Frame
  <2>2. /\ Outcome[t] = "none" /\ UNCHANGED <<req, got>>
        /\ Outcome' = [Outcome EXCEPT ![t] = "ok"]
        /\ Owner' = NoThread
    BY <1>0, <1>4, <2>1, Decides DEF Leave, Codes, InTile, Frame
  <2> QED BY <1>0, <1>4, <2>1, <2>2 DEF Device!Next, Device!Store, Device!Decide, Got
<1> QED BY <1>1, <1>2, <1>3, <1>4 DEF slope_store, devVars

\* Nothing was received, and a read of nothing copies nothing.
LEMMA NothingReceived ==
    ASSUME DriverInv PROVE (received = 0) <=> (Received = <<>>)
<1>1. received \in Nat /\ BEAT_BYTES \in Nat \ {0}
  BY TransportAssumption DEF DriverInv, ControlInv, TransportInv, CallInv
<1>2. received = 0 => received \div BEAT_BYTES = 0
  BY <1>1
<1>3. received # 0 => received \div BEAT_BYTES >= 1
  BY <1>1 DEF DriverInv, TileInv
<1>4. ASSUME received = 0 PROVE Received = <<>>
  <2>1. 1 .. (received \div BEAT_BYTES) = {}
    BY <1>2, <1>4
  <2>2. DOMAIN Received = {} /\ Received \in [{} -> {}]
    BY <2>1 DEF Received
  <2> QED BY <2>2
<1>5. ASSUME received # 0 PROVE Received # <<>>
  <2>1. 1 \in DOMAIN Received
    BY <1>1, <1>3, <1>5 DEF Received
  <2>2. 1 \notin DOMAIN <<>>
    OBVIOUS
  <2> QED BY <2>1, <2>2
<1> QED BY <1>4, <1>5

\* A read returns the last tile, or nothing.
LEMMA ReadMaps ==
    ASSUME DriverInv, NEW t \in Threads, req[t] \in Reads,
           Answers(t), got' = [got EXCEPT ![t] = Received], UNCHANGED <<Results, slope>>
    PROVE  Device!Next
<1>1. Got' = [Got EXCEPT ![t] = Results]
  BY NothingReceived DEF Got, Results, DriverInv, ControlInv, TransportInv, ReplyInv
<1> QED BY <1>1 DEF Answers, Device!Next, Device!Read, Device!Decide

\* A write commits every beat of its tile, under the slope in force.
LEMMA CommitMaps ==
    ASSUME DriverInv, NEW t \in Threads, pc[t] = "finish", Commits(t), count = beats(req[t]),
           received' = req[t].bytes, UNCHANGED <<rxbuf, slope>>
    PROVE  Device!Next
<1>1. rx.st # "issued" /\ req[t].bytes # 0
  BY TileFacts DEF RxLabels, TxLabels, DriverInv, ControlInv, TransportInv, FrameInv, RxInv, Armed,
                   Exclusive, Sized, InWrite, Locked, Frame
<1>2. IsGolden(t, beats(req[t]))
  BY <1>1 DEF DriverInv, TileInv, Vouched
<1>3. Received' = Transformed(req[t], slope)
  BY <1>2 DEF Received, Transformed, IsGolden, Golden, beats
<1>4. Results' = Transformed(req[t], slope)
  BY <1>1, <1>3 DEF Results
<1> QED BY <1>4 DEF Commits, Device!Next, Device!Commit, Device!Decide, Got

\* The results stay while no tile commits and none begins: the receive buffer
\* changes only in a tile, and then nothing is received.
LEMMA ResultsStay ==
    ASSUME UNCHANGED <<received, rxbuf>> \/ (received = 0 /\ received' = 0)
    PROVE  UNCHANGED Results
BY DEF Results, Received

LEMMA StepMaps ==
    ASSUME DriverInv, NEW t \in Threads, Calls(t) \/ Step(t)
    PROVE  Device!Next \/ UNCHANGED Device!vars
<1> USE DEF DriverInv, ControlInv
<1>1. CASE Calls(t)
  <2>1. UNCHANGED <<Results, slope>>
    BY <1>1, ResultsStay DEF Calls, FileCall, Signal, Call, Interrupt, devVars
  <2> QED BY <1>1, <2>1, CallEffect, CallMaps, InterruptEffect, AbortMaps DEF Calls, FileCall, Signal
<1>2. CASE CallStep(t) /\ UNCHANGED devVars
  <2>1. CASE CopyFromUser(t)
    <3>1. UNCHANGED <<rxbuf, slope>>
      BY <1>2 DEF devVars
    <3> QED BY <2>1, <3>1, CopyEffect, BeginMaps, AbortMaps, ResultsStay
  <2>2. CASE ~CopyFromUser(t)
    <3>1. UNCHANGED <<Results, slope>>
      BY <1>2, <2>2, ResultsStay DEF CallStep, Acquire, accel_write, Unlock, Return, devVars
    <3> QED BY <1>2, <2>2, <3>1, AcquireEffect, WriteEffect, ReturnEffect, QuietMaps, AbortMaps,
               ReturnMaps DEF CallStep
  <2> QED BY <2>1, <2>2
<1>3. CASE Transport(t)
  <2>1. UNCHANGED <<Results, slope>>
    BY <1>3, ResultsStay DEF Transport, TileStep, PrepRx, PrepTx, SubmitRx, SubmitTx, IssueRx, IssueTx,
                             WaitTx, WaitRx, Discard, devVars
  <2> QED BY <1>3, <2>1, TileEffect, QuietMaps, AbortMaps DEF Transport
<1>4. CASE relu_accept(t) \/ relu_start(t)
  <2>1. UNCHANGED <<Results, slope>>
    BY <1>4, ResultsStay DEF relu_accept, Accept, relu_start, Start, devVars
  <2> QED BY <1>4, <2>1, AcceptEffect, StartEffect, QuietMaps, AbortMaps DEF relu_accept, relu_start
<1>5. CASE relu_finish(t)
  <2>1. CASE Poll(t, done, "finish") \/ (At(t, "finish") /\ Reject(t, "EIO"))
    <3>1. UNCHANGED <<Results, slope>>
      BY <1>5, <2>1, ResultsStay DEF relu_finish, Poll, Reject, devVars
    <3> QED BY <2>1, <3>1, PollEffect, RejectEffect, QuietMaps, AbortMaps
  <2>2. CASE At(t, "finish") /\ count = beats(req[t]) /\ Publish(t)
    <3>1. /\ pc[t] = "finish" /\ received' = req[t].bytes /\ UNCHANGED <<rxbuf, slope>>
          /\ Commits(t)
      BY <1>5, <2>2, PublishEffect, DuplexAssumption DEF relu_finish, Publish, At, devVars
    <3> QED BY <2>2, <3>1, CommitMaps
  <2> QED BY <1>5, <2>1, <2>2 DEF relu_finish
<1>6. CASE relu_result(t)
  <2>1. UNCHANGED <<Results, slope>> /\ Result(t, received, Received)
    BY <1>6, ResultsStay DEF relu_result, Result, devVars
  <2> QED BY <2>1, ResultEffect, ReadMaps, AbortMaps
<1>7. CASE slope_store(t)
  <2>1. UNCHANGED Results
    BY <1>7, ResultsStay DEF slope_store, Acquire, devVars
  <2> QED BY <1>7, <2>1, StoreMaps
<1> QED BY <1>1, <1>2, <1>3, <1>4, <1>5, <1>6, <1>7 DEF Step

LEMMA NextMaps ==
    ASSUME DriverInv, [Next]_vars PROVE [Device!Next]_(Device!vars)
<1>1. CASE Dma \/ UNCHANGED vars
  <2>1. UNCHANGED <<threadVars, txbuf, lock, slope, received>>
    BY <1>1 DEF Dma, BeatIn, BeatOut, BeatLost, TxDone, RxDone, vars, transportVars, threadVars, devVars
  <2>2. CASE BeatOut
    <3>1. received = 0
      BY <2>2, Facts, TileFacts
         DEF BeatOut, HasRoom, DriverInv, TileInv, RxLabels, TxLabels, Frame
    <3> QED BY <2>1, <3>1, KeepsReply, QuietMaps, ResultsStay DEF DriverInv, ControlInv
  <2>3. CASE UNCHANGED rxbuf
    BY <2>1, <2>3, KeepsReply, QuietMaps, ResultsStay DEF DriverInv, ControlInv
  <2> QED BY <1>1, <2>2, <2>3 DEF Dma, BeatIn, BeatLost, vars, devVars
<1> QED BY <1>1, StepMaps DEF Next

LEMMA InitMaps ==
    ASSUME Init PROVE Device!Init
BY TransportAssumption, SlopeAssumption
   DEF Init, TransportInit, Device!Init, Outcome, Owner, Results, Got, Slopes

\* The driver implements the transactional device: read() returns the last
\* successful tile, whole and under one slope, or nothing, whatever times out,
\* fails or completes late and whichever beats the accelerator loses, for any
\* number of processes, any tiles, slopes and size of the buffer
\* (accel_transport.c 118-223, relu.c 77-121, 142-168).
THEOREM ImplementsTileDevice == Spec => TilesAreTransactions
<1>1. DriverInv /\ [Next]_vars => [Device!Next]_(Device!vars)
  BY NextMaps
<1>2. Init => Device!Init
  BY InitMaps
<1> QED BY <1>1, <1>2, DriverInvariant, PTL DEF Spec, TilesAreTransactions, Device!Spec

-----------------------------------------------------------------------------
(* driver/run-tile.py                                                      *)

\* Where the script is: it is in a call only while it runs tiles, and in the one its
\* round is at; it leaves them without an exception after the last round only.
ScriptInv ==
    /\ phase \in {"main", "tiles", "closing", "counting", "exited"}
    /\ round \in Nat \ {0} /\ doing \in {"store", "write", "read"}
    /\ matched \in Nat /\ taken \in 0 .. 2 * total
    /\ raised \in BOOLEAN /\ disturbed \in BOOLEAN
    /\ pc[runner] # "user" => Running /\ req[runner] = CallOf(doing)
    /\ phase = "main" => round = 1 /\ doing = "store" /\ matched = 0 /\ ~raised
    /\ phase = "tiles" => ~raised /\ round <= total

\* Rounds that are over, in a run that has raised nothing.
Over == IF phase = "tiles" THEN round - 1 ELSE total

\* Interrupts that the round's write has taken: one per completion while it waits for
\* them, both once it has succeeded.
OfWrite == CASE phase # "tiles" -> 0
             [] phase = "tiles" /\ pc[runner] \in Frame ->
                   (IF sent THEN 1 ELSE 0) + (IF returned THEN 1 ELSE 0)
             [] phase = "tiles" /\ pc[runner] \notin Frame ->
                   IF doing = "read" \/ (doing = "write" /\ ret[runner] = "ok") THEN 2 ELSE 0

\* A call goes on from each wait only with the completion it waited for; the rounds
\* and their writes have taken their interrupts.
Waits(t) == /\ pc[t] \in {"wait_rx", "poll", "finish"} => sent
            /\ pc[t] \in {"poll", "finish"} => returned
Paid == phase # "main" /\ ~raised => taken >= 2 * Over + OfWrite

IrqInv == Waits(runner) /\ Paid

\* What the steps of a round have done, if nobody else has written or stored.
Stored == slope = Tile.slope
Written == received = Tile.bytes /\ Received = want

FairInv ==
    phase # "main" /\ ~raised /\ ~disturbed =>
        /\ \A t \in Others : req[t].op \notin {"write", "store"}
        /\ matched = Over
        /\ phase = "tiles" =>
              /\ doing # "store" \/ ret[runner] = "ok" => Stored
              /\ doing = "read" \/ (doing = "write" /\ ret[runner] = "ok") => Written
              /\ doing = "read" /\ ret[runner] = "ok" => got[runner] = want

RunInv == DriverInv /\ ScriptInv /\ IrqInv /\ FairInv

\* A round's calls are calls of the device.
LEMMA RoundCalls ==
    ASSUME round \in Nat \ {0}, Running
    PROVE  /\ Tile.bytes \in Nat \ {0} /\ Tile.slope \in Slopes
           /\ CallOf("store") \in Stores /\ CallOf("store").slope = Tile.slope
           /\ CallOf("write") \in Writes /\ CallOf("write").bytes = Tile.bytes
           /\ CallOf("write").tile = Tile.tile
           /\ CallOf("read") \in Reads /\ CallOf("read").count = Tile.bytes
<1>1. Tile \in [tile : Tiles, slope : Slopes,
                bytes : (1 .. MAX_BEATS * BEAT_BYTES) \cap ReadCounts]
  <2> DEFINE R == [tile : Tiles, slope : Slopes,
                   bytes : (1 .. MAX_BEATS * BEAT_BYTES) \cap ReadCounts]
  <2>1. RELU_TILES \in Seq(R)
    BY RunnerAssumption
  <2> HIDE DEF R
  <2>2. round \in 1 .. Len(RELU_TILES)
    BY <2>1 DEF Running, total
  <2>3. Tile \in R
    BY <2>1, <2>2 DEF Tile
  <2> QED BY <2>3 DEF R
<1> DEFINE a == Tile.tile
           b == Tile.bytes
           c == Tile.slope
<1>2. a \in Tiles /\ c \in Slopes /\ b \in 1 .. MAX_BEATS * BEAT_BYTES /\ b \in ReadCounts
  BY <1>1
<1>3. /\ CallOf("store") = [op |-> "store", slope |-> c]
      /\ CallOf("write") = [op |-> "write", tile |-> a, bytes |-> b]
      /\ CallOf("read") = [op |-> "read", count |-> b]
  BY DEF CallOf
<1> HIDE DEF a, b, c
<1>4. MAX_BEATS \in Nat \ {0} /\ BEAT_BYTES \in Nat \ {0} /\ SLOPE_MAX \in Nat
  BY TransportAssumption, SlopeAssumption
<1>5. b \in Nat \ {0} /\ b \in 0 .. (MAX_BEATS + 1) * BEAT_BYTES
  <2>1. MAX_BEATS * BEAT_BYTES \in Nat /\ (MAX_BEATS + 1) * BEAT_BYTES \in Nat
        /\ MAX_BEATS * BEAT_BYTES <= (MAX_BEATS + 1) * BEAT_BYTES
    BY <1>4
  <2> QED BY <1>2, <2>1
<1>6. c \in -1 .. SLOPE_MAX + 1
  BY <1>2, <1>4 DEF Slopes
<1>7. /\ CallOf("store") \in Stores /\ CallOf("store").slope = c
      /\ CallOf("write") \in Writes /\ CallOf("write").bytes = b /\ CallOf("write").tile = a
      /\ CallOf("read") \in Reads /\ CallOf("read").count = b
  BY <1>2, <1>3, <1>5, <1>6 DEF Stores, Writes, Reads
<1> QED BY <1>2, <1>5, <1>7 DEF a, b, c

\* The kinds of call are told apart by their names.
LEMMA Kinds ==
    ASSUME NEW r
    PROVE  /\ r \in Writes => r.op = "write"
           /\ r \in Reads => r.op = "read"
           /\ r \in Stores => r.op = "store"
           /\ r = NoCall => r.op = "none"
BY DEF Writes, Reads, Stores, NoCall

\* Every step of the script's board is one of the driver's, or none.
LEMMA RunSteps ==
    ASSUME ScriptInv, [RNext]_allVars PROVE [Next]_vars
<1>1. CASE Main
  BY <1>1 DEF Main
<1>2. CASE SystemCall
  <2>1. doing \in {"store", "write", "read"} /\ round \in Nat \ {0} /\ Running
    BY <1>2 DEF ScriptInv, SystemCall
  <2>2. Calls(runner)
    <3>1. CASE doing = "store"
      BY <1>2, <2>1, <3>1, RoundCalls DEF SystemCall, Calls, Entry, CallOf
    <3>2. CASE doing = "write"
      BY <1>2, <2>1, <3>2, RoundCalls DEF SystemCall, Calls, FileCall, Entry, CallOf
    <3>3. CASE doing = "read"
      BY <1>2, <2>1, <3>3, RoundCalls DEF SystemCall, Calls, FileCall, Entry, CallOf
    <3> QED BY <2>1, <3>1, <3>2, <3>3
  <2> QED BY <2>2, RunnerAssumption DEF Next
<1>3. CASE RunnerStep
  BY <1>3, RunnerAssumption DEF RunnerStep, Next
<1>4. CASE \E t \in Threads : AnySignal(t)
  BY <1>4 DEF AnySignal, Calls, Next
<1>5. CASE \E t \in Others : OtherCall(t)
  <2>1. PICK t \in Others, r \in OtherCalls : Call(t, r, Entry(r))
    BY <1>5 DEF OtherCall
  <2>2. UNCHANGED <<devVars, aborted>>
    BY <1>5 DEF OtherCall
  <2>3. r \in Writes \cup Reads \cup Stores
    BY RunnerAssumption
  <2>4. Calls(t)
    <3>1. CASE r \in Writes
      BY <2>1, <2>2, <3>1, Kinds DEF Calls, FileCall, Entry
    <3>2. CASE r \in Reads
      BY <2>1, <2>2, <3>2, Kinds DEF Calls, FileCall, Entry
    <3>3. CASE r \in Stores
      BY <2>1, <2>2, <3>3, Kinds DEF Calls, FileCall, Entry
    <3> QED BY <2>3, <3>1, <3>2, <3>3
  <2> QED BY <2>4 DEF Next, Others
<1>6. CASE \E t \in Others : Step(t)
  BY <1>6 DEF Next, Others
<1>7. CASE Irq \/ Stream
  BY <1>7 DEF Irq, Stream, Next, Dma
<1>8. CASE UNCHANGED allVars
  BY <1>8 DEF allVars
<1> QED BY <1>1, <1>2, <1>3, <1>4, <1>5, <1>6, <1>7, <1>8, RunnerAssumption DEF RNext, Others

-----------------------------------------------------------------------------
(* What a step of a call does                                              *)

Untouched == UNCHANGED <<slope, received, Received>>

\* A step moves its own thread; nobody's completions but the owner's change.
LEMMA StepLocal ==
    ASSUME DriverInv, NEW t \in Threads, Step(t) \/ Calls(t), NEW u \in Threads \ {t}
    PROVE  /\ pc'[u] = pc[u] /\ req'[u] = req[u] /\ ret'[u] = ret[u] /\ got'[u] = got[u]
           /\ pc[u] \in Frame => UNCHANGED <<sent, returned>>
<1>1. /\ pc \in [Threads -> Labels] /\ ret \in [Threads -> Codes]
      /\ req = [v \in Threads |-> req[v]] /\ got = [v \in Threads |-> got[v]]
  BY Facts DEF DriverInv, ControlInv, TransportInv, CallInv, ReplyInv
<1>2. pc[u] \in Frame => ~At(t, "copy_in")
  BY TileFacts DEF At, Locked, Frame
<1>3. CASE Calls(t)
  BY <1>1, <1>3 DEF Calls, FileCall, Signal, Call, Interrupt, Refuse, Ret, chanVars
<1>4. CASE CallStep(t)
  BY <1>1, <1>2, <1>4 DEF CallStep, Acquire, accel_write, CopyFromUser, Unlock, Return, ToUser,
                          Leave, Refuse, Ret, Goto, chanVars
<1>5. CASE Transport(t)
  BY <1>1, <1>5 DEF Transport, TileStep, PrepRx, PrepTx, SubmitRx, SubmitTx, IssueRx, IssueTx,
                    WaitTx, WaitRx, Discard, Leave, Fail, Ret, Goto
<1>6. CASE relu_accept(t) \/ relu_start(t) \/ relu_finish(t) \/ relu_result(t)
  BY <1>1, <1>6 DEF relu_accept, Accept, relu_start, Start, relu_finish, Poll, Publish, Reject,
                    relu_result, Result, Leave, Ret, Goto, chanVars
<1>7. CASE slope_store(t)
  BY <1>1, <1>7 DEF slope_store, Acquire, Leave, Refuse, Ret, Goto, chanVars
<1> QED BY <1>3, <1>4, <1>5, <1>6, <1>7 DEF Step

\* What finish publishes is the tile, under the slope in force.
LEMMA PublishesTile ==
    ASSUME DriverInv, NEW t \in Threads, pc[t] = "finish", count = beats(req[t]),
           received' = req[t].bytes, UNCHANGED <<rxbuf, slope>>
    PROVE  Received' = Transformed(req[t], slope)
<1>1. rx.st # "issued" /\ req[t].bytes # 0
  BY TileFacts DEF RxLabels, TxLabels, DriverInv, ControlInv, TransportInv, FrameInv, RxInv, Armed,
                   Exclusive, Sized, InWrite, Locked, Frame
<1>2. IsGolden(t, beats(req[t]))
  BY <1>1 DEF DriverInv, TileInv, Vouched
<1> QED BY <1>2 DEF Received, Transformed, IsGolden, Golden, beats

\* What a step that stays in its call decides.
Decided(t) ==
    \/ Untouched /\ ret'[t] # "ok"
    \/ req[t] \in Writes /\ UNCHANGED slope /\ ret'[t] # "ok"
    \/ /\ req[t] \in Writes /\ UNCHANGED slope /\ pc[t] = "finish" /\ ret'[t] = "ok"
       /\ received' = req[t].bytes /\ Received' = Transformed(req[t], slope)
    \/ /\ req[t] \in Stores /\ UNCHANGED <<received, Received>> /\ ret'[t] = "ok"
       /\ slope' = req[t].slope
    \/ /\ req[t] \in Reads /\ Untouched /\ ret'[t] = "ok" /\ got'[t] = Received
       /\ received = 0 \/ req[t].count >= received

Ends(t) == /\ pc[t] \in {"unlock", "return"} /\ pc'[t] = "user" /\ Untouched
           /\ req'[t] = NoCall /\ ret'[t] = "none"

LEMMA StepDecides ==
    ASSUME DriverInv, NEW t \in Threads, Step(t)
    PROVE  Ends(t) \/ (pc'[t] # "user" /\ req'[t] = req[t] /\ Decided(t))
<1>1. /\ pc \in [Threads -> Labels] /\ ret \in [Threads -> Codes] /\ DUPLEX
      /\ req = [v \in Threads |-> req[v]] /\ got = [v \in Threads |-> got[v]]
      /\ pc[t] \notin {"unlock", "return", "discard"} => ret[t] = "none"
      /\ pc[t] = "discard" => ret[t] # "ok"
      /\ pc[t] \in InWrite => req[t] \in Writes
      /\ pc[t] \in InRead => req[t] \in Reads
      /\ pc[t] \in {"store", "store_lock", "store_reg"} => req[t] \in Stores
  BY Facts DEF DriverInv, ControlInv, TransportInv, CallInv, ReplyInv, StoreInv, Sized
<1>2. UNCHANGED <<received, rxbuf>> => UNCHANGED Received
  BY DEF Received
<1>3. CASE CallStep(t) /\ UNCHANGED devVars
  <2>1. CASE CopyFromUser(t)
    BY <1>1, <1>3, <2>1 DEF CopyFromUser, Leave, Ret, Goto, At, devVars, Decided, InWrite
  <2>2. CASE Unlock(t) \/ Return(t)
    BY <1>1, <1>2, <1>3, <2>2 DEF Unlock, Return, ToUser, At, devVars, Ends, Untouched
  <2>3. CASE Acquire(t, "write_lock", "copy_in") \/ Acquire(t, "read_lock", "result") \/ accel_write(t)
    BY <1>1, <1>2, <1>3, <2>3 DEF Acquire, accel_write, Refuse, Ret, Goto, At, devVars, Decided,
                                  Untouched
  <2> QED BY <1>3, <2>1, <2>2, <2>3 DEF CallStep
<1>4. CASE Transport(t)
  BY <1>1, <1>2, <1>4 DEF Transport, TileStep, PrepRx, PrepTx, SubmitRx, SubmitTx, IssueRx, IssueTx,
                    WaitTx, WaitRx, Discard, Leave, Fail, Ret, Goto, At, devVars, Decided, Untouched
<1>5. CASE relu_accept(t) \/ relu_start(t)
  BY <1>1, <1>2, <1>5 DEF relu_accept, Accept, relu_start, Start, Leave, Ret, Goto, At, devVars,
                          Decided, Untouched
<1>6. CASE relu_finish(t)
  <2>1. CASE Poll(t, done, "finish") \/ (At(t, "finish") /\ Reject(t, "EIO"))
    BY <1>1, <1>2, <1>6, <2>1 DEF relu_finish, Poll, Reject, Leave, Ret, Goto, At, devVars,
                                  Decided, Untouched
  <2>2. CASE At(t, "finish") /\ count = beats(req[t]) /\ Publish(t)
    <3>1. /\ pc[t] = "finish" /\ received' = req[t].bytes /\ UNCHANGED <<rxbuf, slope>>
      BY <1>1, <1>6, <2>2 DEF relu_finish, Publish, At, devVars
    <3>2. Received' = Transformed(req[t], slope)
      BY <2>2, <3>1, PublishesTile
    <3>3. pc'[t] # "user" /\ req'[t] = req[t] /\ ret'[t] = "ok" /\ req[t] \in Writes
      BY <1>1, <2>2, <3>1 DEF Publish, Leave, Ret, InWrite, Frame
    <3> QED BY <3>1, <3>2, <3>3 DEF Decided
  <2> QED BY <1>6, <2>1, <2>2 DEF relu_finish
<1>7. CASE relu_result(t)
  BY <1>1, <1>2, <1>7 DEF relu_result, Result, Leave, Ret, At, devVars, Decided, Untouched, InRead
<1>8. CASE slope_store(t)
  BY <1>1, <1>2, <1>8 DEF slope_store, Acquire, Leave, Refuse, Ret, Goto, At, devVars, Decided,
                          Untouched
<1> QED BY <1>3, <1>4, <1>5, <1>6, <1>7, <1>8 DEF Step

\* The completions a call sees are the ones it has declared, and it goes on from each
\* wait only with the completion it waited for.
LEMMA StepWaits ==
    ASSUME DriverInv, NEW t \in Threads, Step(t), Waits(t)
    PROVE  /\ Waits(t)'
           /\ pc'[t] \in Frame =>
                 IF pc[t] \in Frame THEN UNCHANGED <<sent, returned>> ELSE ~sent' /\ ~returned'
<1>1. pc \in [Threads -> Labels] /\ DUPLEX
  BY Facts DEF DriverInv
<1>2. CASE CallStep(t)
  BY <1>1, <1>2 DEF CallStep, Acquire, accel_write, CopyFromUser, Unlock, Return, ToUser,
                    Leave, Refuse, Ret, Goto, At, Frame, Waits, chanVars
<1>3. CASE Transport(t)
  BY <1>1, <1>3 DEF Transport, TileStep, PrepRx, PrepTx, SubmitRx, SubmitTx, IssueRx, IssueTx,
                    WaitTx, WaitRx, Discard, Leave, Fail, Ret, Goto, At, Frame, Waits
<1>4. CASE relu_accept(t) \/ relu_start(t) \/ relu_finish(t) \/ relu_result(t)
  BY <1>1, <1>4 DEF relu_accept, Accept, relu_start, Start, relu_finish, Poll, Publish, Reject,
                    relu_result, Result, Leave, Ret, Goto, At, Frame, Waits, chanVars
<1>5. CASE slope_store(t)
  BY <1>1, <1>5 DEF slope_store, Acquire, Leave, Refuse, Ret, Goto, At, Frame, Waits, chanVars
<1> QED BY <1>2, <1>3, <1>4, <1>5 DEF Step

\* The other actions: a signal ends a wait for the lock, and the channels and the
\* stream move by themselves.
LEMMA SignalDecides ==
    ASSUME DriverInv, NEW t \in Threads, Signal(t)
    PROVE  /\ pc'[t] = "return" /\ ret'[t] = "ERESTARTSYS" /\ req'[t] = req[t]
           /\ pc[t] \in {"write_lock", "read_lock"}
           /\ UNCHANGED <<received, sent, returned>>
<1>1. pc \in [Threads -> Labels] /\ ret \in [Threads -> Codes]
  BY Facts DEF DriverInv
<1> QED BY <1>1 DEF Signal, Interrupt, Refuse, Ret, At, chanVars

LEMMA DmaMoves ==
    ASSUME DriverInv, Dma
    PROVE  /\ UNCHANGED <<pc, req, ret, got, slope, received>>
           /\ received # 0 => UNCHANGED Received
           /\ BeatIn \/ BeatOut \/ BeatLost => UNCHANGED <<sent, returned>>
           /\ TxDone => sent' /\ UNCHANGED returned
           /\ RxDone => returned' /\ UNCHANGED sent
<1>1. UNCHANGED <<pc, req, ret, got, slope, received>>
  BY DEF Dma, TxDone, RxDone, BeatIn, BeatOut, BeatLost, threadVars, devVars
<1>2. received # 0 => UNCHANGED rxbuf
  <2>1. CASE BeatOut
    <3>1. received = 0
      BY <2>1, Facts, TileFacts
         DEF BeatOut, HasRoom, DriverInv, TileInv, RxLabels, TxLabels, Frame
    <3> QED BY <3>1
  <2>2. CASE ~BeatOut
    BY <2>2 DEF Dma, TxDone, RxDone, BeatIn, BeatLost, devVars
  <2> QED BY <2>1, <2>2
<1>3. received # 0 => UNCHANGED Received
  BY <1>1, <1>2 DEF Received
<1>4. BeatIn \/ BeatOut \/ BeatLost => UNCHANGED <<sent, returned>>
  BY DEF BeatIn, BeatOut, BeatLost
<1>5. (TxDone => sent' /\ UNCHANGED returned) /\ (RxDone => returned' /\ UNCHANGED sent)
  BY DEF TxDone, RxDone
<1> QED BY <1>1, <1>3, <1>4, <1>5

-----------------------------------------------------------------------------
(* Where the script is                                                     *)

\* A call that is not over is known by its labels.
LEMMA CallKind ==
    ASSUME DriverInv, NEW t \in Threads
    PROVE  /\ pc[t] = "user" => req[t] = NoCall /\ ret[t] = "none"
           /\ pc[t] \in Frame => req[t] \in Writes /\ ret[t] # "ok"
           /\ pc[t] \in {"write_lock", "read_lock"} => ret[t] = "none"
           /\ pc[t] \in Labels
<1>1. pc[t] \in Labels /\ "user" \notin {"unlock", "return", "discard"}
  BY Facts DEF DriverInv
<1>2. /\ pc[t] = "user" => req[t] = NoCall
      /\ pc[t] \notin {"unlock", "return", "discard"} => ret[t] = "none"
      /\ pc[t] = "discard" => ret[t] # "ok"
  BY DEF DriverInv, ControlInv, TransportInv, ReplyInv
<1>3. pc[t] \in Frame => req[t] \in Writes
  BY DEF DriverInv, ControlInv, TransportInv, CallInv, Sized, InWrite
<1>4. pc[t] \in Frame => ret[t] # "ok"
  BY <1>2 DEF Frame
<1> QED BY <1>1, <1>2, <1>3, <1>4

\* The script runs at least one round.
LEMMA Runner == runner \in Threads /\ total \in Nat \ {0}
<1> DEFINE R == [tile : Tiles, slope : Slopes, bytes : (1 .. MAX_BEATS * BEAT_BYTES) \cap ReadCounts]
<1>1. runner \in Threads /\ RELU_TILES \in Seq(R) /\ RELU_TILES # <<>>
  BY RunnerAssumption
<1> HIDE DEF R
<1> QED BY <1>1 DEF total

\* The invariant holds at the start, and its driver part is kept by the driver.
LEMMA InitScript ==
    ASSUME RInit PROVE RunInv
<1>1. DriverInv
  BY InitDriver DEF RInit
<1>2. pc[runner] = "user" /\ phase = "main" /\ round = 1 /\ doing = "store" /\ matched = 0
      /\ ~raised /\ raised \in BOOLEAN /\ disturbed \in BOOLEAN /\ taken = 0
  <2>1. runner \in Threads
    BY Runner
  <2> QED BY <2>1 DEF RInit, Init, TransportInit
<1>3. ScriptInv
  BY <1>2, Runner DEF ScriptInv
<1> QED BY <1>1, <1>2, <1>3 DEF RunInv, IrqInv, Waits, Paid, FairInv

LEMMA NextDriver ==
    ASSUME RunInv, [RNext]_allVars PROVE DriverInv'
<1>1. DriverInv /\ [Next]_vars
  BY RunSteps DEF RunInv
<1>2. FrameInv' /\ CallInv' /\ StoreInv' /\ DeviceInv'
  BY <1>1, NextFrame, NextCalls, NextStore, NextDevice DEF DriverInv, ControlInv, TransportInv
<1>3. ReplyInv' /\ TileInv'
  BY <1>1, NextReply, NextTile
<1> QED BY <1>2, <1>3 DEF DriverInv, ControlInv, TransportInv

\* The steps of main.
LEMMA MainKeeps ==
    ASSUME RunInv, Main PROVE ScriptInv' /\ IrqInv' /\ FairInv'
<1> USE DEF RunInv
<1>1. UNCHANGED <<pc, req, ret, got, sent, returned, slope, received, rxbuf>> /\ UNCHANGED Received
  BY DEF Main, vars, transportVars, threadVars, chanVars, devVars, Received
<1>2. phase # "tiles" /\ pc[runner] = "user" /\ total \in Nat
  BY Runner DEF Main, Refused, Opened, Closed, Counted, ScriptInv, Running
<1>3. pc'[runner] = "user" /\ ret'[runner] = "none" /\ ret[runner] = "none" /\ total' = total
  BY <1>1, <1>2, CallKind, Runner DEF total
<1>4. ScriptInv'
  <2>1. CASE Refused
    BY <1>2, <1>3, <2>1 DEF Refused, ScriptInv
  <2>2. CASE Opened
    <3>1. 1 <= total /\ 0 \in 0 .. 2 * total
      BY Runner
    <3> QED BY <1>2, <1>3, <2>2, <3>1 DEF Opened, ScriptInv
  <2>3. CASE Closed
    BY <1>2, <1>3, <2>3 DEF Closed, ScriptInv
  <2>4. CASE Counted
    BY <1>2, <1>3, <2>4 DEF Counted, ScriptInv
  <2> QED BY <2>1, <2>2, <2>3, <2>4 DEF Main
<1>5. IrqInv'
  <2>1. CASE Refused \/ Closed \/ Counted
    BY <1>2, <1>3, <2>1 DEF Refused, Closed, Counted, ScriptInv, IrqInv, Waits, Paid, Over, OfWrite
  <2>2. CASE Opened
    <3>1. phase' = "tiles" /\ round' = 1 /\ doing' = "store" /\ taken' = 0
      BY <2>2 DEF Opened, ScriptInv
    <3>2. Over' = 0 /\ OfWrite' = 0
      BY <1>3, <3>1 DEF Over, OfWrite, Frame
    <3> QED BY <1>3, <3>1, <3>2 DEF IrqInv, Waits, Paid
  <2> QED BY <2>1, <2>2 DEF Main
<1>6. FairInv'
  <2>1. CASE Opened
    <3>1. \A t \in Others : req'[t].op \in {"write", "store"} => disturbed'
      BY <1>1, <2>1 DEF Opened
    <3> QED BY <1>3, <2>1, <3>1 DEF Opened, ScriptInv, FairInv, Over
  <2>2. CASE Refused \/ Closed \/ Counted
    BY <1>1, <1>2, <2>2 DEF Refused, Closed, Counted, ScriptInv, FairInv, Over
  <2> QED BY <2>1, <2>2 DEF Main
<1> QED BY <1>4, <1>5, <1>6

\* Only a thread that is in a call makes steps.
LEMMA StepInCall ==
    ASSUME NEW t \in Threads, Step(t) PROVE pc[t] # "user"
<1>1. CASE CallStep(t) \/ Transport(t)
  BY <1>1 DEF CallStep, Acquire, accel_write, CopyFromUser, Unlock, Return, Transport, TileStep, PrepRx,
              PrepTx, SubmitRx, SubmitTx, IssueRx, IssueTx, WaitTx, WaitRx, Discard, At
<1>2. CASE ~(CallStep(t) \/ Transport(t))
  BY <1>2 DEF Step, relu_accept, Accept, relu_start, Start, relu_finish, Poll, relu_result, Result,
              slope_store, Acquire, At
<1> QED BY <1>1, <1>2

\* What the script does not do: its round stays, and an interrupt is counted perhaps.
Rests == /\ UNCHANGED <<phase, round, doing, matched, raised>>
         /\ taken' \in {taken, CountedIrq(taken)} /\ disturbed' \in BOOLEAN

\* While the round stays, so does all that is made of it.
LEMMA RoundRests ==
    ASSUME UNCHANGED round
    PROVE  Tile' = Tile /\ want' = want /\ \A what : CallOf(what)' = CallOf(what)
<1>1. Tile' = Tile
  BY DEF Tile
<1> QED BY <1>1 DEF want, Transformed, CallOf, Relu, Beat

LEMMA ScriptRests ==
    ASSUME ScriptInv, Rests, pc'[runner] # "user" => Running /\ req'[runner] = CallOf(doing)
    PROVE  ScriptInv'
<1>1. taken' \in 0 .. 2 * total
  BY Runner DEF ScriptInv, Rests, CountedIrq
<1>2. CallOf(doing)' = CallOf(doing) /\ Running' = Running /\ total' = total
  BY RoundRests DEF Rests, Running, total, CallOf
<1> QED BY <1>1, <1>2 DEF ScriptInv, Rests

\* A write owes two interrupts.
LEMMA OfWriteBound == OfWrite \in 0 .. 2 /\ OfWrite' \in 0 .. 2
BY DEF OfWrite

LEMMA OverRests ==
    ASSUME ScriptInv, UNCHANGED <<phase, round>> PROVE Over' = Over /\ Over \in Nat
BY Runner DEF ScriptInv, Over, total

LEMMA IrqRests ==
    ASSUME ScriptInv, IrqInv, UNCHANGED <<phase, round, raised, taken>>, Waits(runner)',
           OfWrite' <= OfWrite
    PROVE  IrqInv'
<1>1. PICK n \in Nat : n = Over /\ n = Over'
  BY OverRests
<1>2. PICK v \in 0 .. 2 : v = OfWrite'
  BY OfWriteBound
<1>3. PICK w \in 0 .. 2 : w = OfWrite
  BY OfWriteBound
<1>4. v <= w
  BY <1>2, <1>3
<1>5. phase # "main" /\ ~raised => taken >= 2 * n + w
  BY <1>1, <1>3 DEF IrqInv, Paid
<1>6. taken \in Nat
  BY Runner DEF ScriptInv
<1>7. phase # "main" /\ ~raised => taken >= 2 * n + v
  BY <1>4, <1>5, <1>6
<1>8. Paid'
  BY <1>1, <1>2, <1>7, Zenon DEF Paid
<1> QED BY <1>8 DEF IrqInv

-----------------------------------------------------------------------------
(* The script's own calls                                                  *)

LEMMA SystemCallKeeps ==
    ASSUME RunInv, SystemCall PROVE ScriptInv' /\ IrqInv' /\ FairInv'
<1>1. /\ Running /\ pc[runner] = "user" /\ req'[runner] = CallOf(doing)
      /\ pc'[runner] \in {"store", "write", "read_lock"}
      /\ \A t \in Others : req'[t] = req[t]
      /\ UNCHANGED <<ret, got, received, slope, rxbuf, sent, returned, phase, round, doing,
                     matched, raised, taken, disturbed>>
  <2>1. pc \in [Threads -> Labels] /\ req = [v \in Threads |-> req[v]]
    BY Facts DEF RunInv, DriverInv, ControlInv, TransportInv, CallInv
  <2>2. Entry(CallOf(doing)) \in {"store", "write", "read_lock"}
    BY DEF RunInv, ScriptInv, Entry, CallOf
  <2>3. Call(runner, CallOf(doing), Entry(CallOf(doing))) /\ Running /\ UNCHANGED <<devVars, runVars>>
    BY DEF SystemCall
  <2> HIDE DEF CallOf
  <2> QED BY <2>1, <2>2, <2>3, Runner DEF Call, At, Others, chanVars, devVars, runVars
<1>2. ScriptInv'
  BY <1>1, ScriptRests DEF RunInv, Rests, ScriptInv
<1>3. OfWrite' = OfWrite
  BY <1>1 DEF OfWrite, Frame
<1>4. IrqInv'
  <2>1. Waits(runner)'
    BY <1>1 DEF Waits
  <2>2. OfWrite' <= OfWrite
    BY <1>3, OfWriteBound
  <2> QED BY <1>1, <2>1, <2>2, IrqRests DEF RunInv
<1>5. FairInv'
  <2>1. Tile' = Tile /\ want' = want /\ Received' = Received /\ Over' = Over
    BY <1>1, RoundRests DEF Received, Over, total
  <2> QED BY <1>1, <2>1 DEF RunInv, FairInv, Stored, Written
<1> QED BY <1>2, <1>4, <1>5

\* The script is in a call, and the call is its round's.
LEMMA InRound ==
    ASSUME RunInv, pc[runner] # "user"
    PROVE  /\ Running /\ req[runner] = CallOf(doing) /\ round \in Nat \ {0}
           /\ doing = "store" => req[runner].op = "store" /\ req[runner].slope = Tile.slope
           /\ doing = "write" => /\ req[runner].op = "write" /\ req[runner].bytes = Tile.bytes
                                 /\ Transformed(req[runner], Tile.slope) = want
           /\ doing = "read" => req[runner].op = "read"
           /\ pc[runner] \in Frame => doing = "write"
<1>1. Running /\ req[runner] = CallOf(doing) /\ round \in Nat \ {0} /\ doing \in {"store", "write", "read"}
  BY DEF RunInv, ScriptInv
<1>2. /\ doing = "store" => req[runner].op = "store" /\ req[runner].slope = Tile.slope
      /\ doing = "write" => /\ req[runner].op = "write" /\ req[runner].bytes = Tile.bytes
                            /\ req[runner].tile = Tile.tile
      /\ doing = "read" => req[runner].op = "read"
  BY <1>1 DEF CallOf
<1>3. doing = "write" => Transformed(req[runner], Tile.slope) = want
  BY <1>2 DEF want, Transformed, beats
<1>4. pc[runner] \in Frame => req[runner].op = "write"
  BY CallKind, Kinds, Runner DEF RunInv
<1> QED BY <1>1, <1>2, <1>3, <1>4

\* What a step decides, by the kind of its call.
LEMMA DecidesByKind ==
    ASSUME NEW t \in Threads, Decided(t)
    PROVE  /\ req[t].op = "store" =>
                 \/ Untouched /\ ret'[t] # "ok"
                 \/ UNCHANGED <<received, Received>> /\ slope' = req[t].slope
           /\ req[t].op = "write" =>
                 /\ UNCHANGED slope
                 /\ ret'[t] = "ok" => /\ pc[t] = "finish" /\ received' = req[t].bytes
                                      /\ Received' = Transformed(req[t], slope)
           /\ req[t].op = "read" => Untouched /\ (ret'[t] = "ok" => got'[t] = Received)
BY Kinds DEF Decided, Untouched

\* A step inside the script's call.
LEMMA InsideKeeps ==
    ASSUME RunInv, RunnerStep, ~Back PROVE ScriptInv' /\ IrqInv' /\ FairInv'
<1>1. /\ Step(runner) /\ DriverInv /\ runner \in Threads /\ pc[runner] # "user"
      /\ UNCHANGED <<phase, round, doing, matched, raised, taken, disturbed>>
  BY Runner, StepInCall DEF RunnerStep, RunInv, runVars
<1>2. pc'[runner] # "user" /\ req'[runner] = req[runner] /\ Decided(runner)
  BY <1>1, StepDecides DEF Ends, Back
<1>3. /\ Waits(runner) /\ Waits(runner)'
      /\ pc'[runner] \in Frame =>
            IF pc[runner] \in Frame THEN UNCHANGED <<sent, returned>> ELSE ~sent' /\ ~returned'
  BY <1>1, StepWaits DEF RunInv, IrqInv
<1>4. ScriptInv'
  BY <1>1, <1>2, ScriptRests, InRound DEF RunInv, Rests, ScriptInv
<1>5. OfWrite' <= OfWrite
  <2>1. CASE pc'[runner] \in Frame
    BY <1>1, <1>3, <2>1, OfWriteBound DEF OfWrite
  <2>2. CASE pc'[runner] \notin Frame /\ doing = "read"
    BY <1>1, <2>2, InRound DEF OfWrite
  <2>3. CASE pc'[runner] \notin Frame /\ doing = "write" /\ ret'[runner] = "ok"
    <3>1. pc[runner] = "finish"
      BY <1>1, <1>2, <2>3, InRound, DecidesByKind
    <3>2. sent /\ returned /\ pc[runner] \in Frame
      BY <1>3, <3>1 DEF Waits, Frame
    <3> QED BY <1>1, <2>3, <3>2 DEF OfWrite
  <2>4. CASE pc'[runner] \notin Frame /\ doing # "read" /\ ~(doing = "write" /\ ret'[runner] = "ok")
    <3>1. OfWrite' = 0
      BY <1>1, <2>4 DEF OfWrite
    <3> QED BY <3>1, OfWriteBound
  <2> QED BY <2>1, <2>2, <2>3, <2>4
<1>6. IrqInv'
  BY <1>1, <1>3, <1>5, IrqRests DEF RunInv
<1>7. FairInv'
  <2>1. Tile' = Tile /\ want' = want /\ Over' = Over /\ \A t \in Others : req'[t] = req[t]
    <3>1. \A t \in Threads \ {runner} : req'[t] = req[t]
      BY <1>1, StepLocal
    <3> QED BY <1>1, <3>1, RoundRests DEF Over, total, Others
  <2>2. CASE doing = "store"
    <3>1. ret'[runner] = "ok" => slope' = Tile.slope
      BY <1>1, <1>2, <2>2, InRound, DecidesByKind
    <3> QED BY <1>1, <2>1, <2>2, <3>1 DEF RunInv, FairInv, Stored, Written
  <2>3. CASE doing = "write"
    <3>1. /\ slope' = slope
          /\ ret'[runner] = "ok" => received' = Tile.bytes /\ (slope = Tile.slope => Received' = want)
      BY <1>1, <1>2, <2>3, InRound, DecidesByKind
    <3> QED BY <1>1, <2>1, <2>3, <3>1 DEF RunInv, FairInv, Stored, Written
  <2>4. CASE doing = "read"
    <3>1. Untouched /\ (ret'[runner] = "ok" => got'[runner] = Received)
      BY <1>1, <1>2, <2>4, InRound, DecidesByKind
    <3> QED BY <1>1, <2>1, <2>4, <3>1 DEF RunInv, FairInv, Stored, Written, Untouched
  <2> QED BY <2>2, <2>3, <2>4 DEF RunInv, ScriptInv
<1> QED BY <1>4, <1>6, <1>7

\* The script's call returns.  What is left then is what the call has decided.
AtReturn == /\ RunInv /\ Running /\ round \in Nat \ {0} /\ round <= total
            /\ pc[runner] \notin Frame /\ pc'[runner] = "user" /\ ret'[runner] = "none"
            /\ Untouched /\ \A t \in Others : req'[t] = req[t]

\* A call that is over changes nothing on its way back.
LEMMA BackFacts ==
    ASSUME RunInv, RunnerStep, Back
    PROVE  AtReturn /\ Returned(ret[runner], got[runner])
<1>1. Step(runner) /\ DriverInv /\ runner \in Threads /\ Returned(ret[runner], got[runner])
  BY Runner DEF RunnerStep, RunInv
<1>2. Ends(runner)
  BY <1>1, StepDecides DEF Back
<1>3. \A t \in Threads \ {runner} : req'[t] = req[t]
  BY <1>1, StepLocal
<1>4. Running /\ round \in Nat \ {0}
  BY InRound DEF Back
<1> QED BY <1>1, <1>2, <1>3, <1>4 DEF AtReturn, Ends, Frame, Others, Running

\* An exception leaves nothing to keep.
LEMMA RaiseKeeps ==
    ASSUME AtReturn, Raise PROVE ScriptInv' /\ IrqInv' /\ FairInv'
<1>1. phase' = "closing" /\ raised' = TRUE /\ pc'[runner] = "user"
      /\ UNCHANGED <<round, doing, matched, taken, disturbed>>
  BY DEF AtReturn, Raise
<1>2. ScriptInv'
  <2>1. total' = total
    BY DEF total
  <2> QED BY <1>1, <2>1 DEF AtReturn, RunInv, ScriptInv
<1> QED BY <1>1, <1>2 DEF IrqInv, Waits, Paid, FairInv

\* An interrupted call is made again.
LEMMA RetryKeeps ==
    ASSUME AtReturn, UNCHANGED runVars, ret[runner] = "ERESTARTSYS"
    PROVE  ScriptInv' /\ IrqInv' /\ FairInv'
<1>1. UNCHANGED <<phase, round, doing, matched, raised, taken, disturbed>>
  BY DEF runVars
<1>2. ScriptInv'
  BY <1>1, ScriptRests DEF AtReturn, RunInv, Rests, ScriptInv
<1>3. OfWrite' <= OfWrite
  BY <1>1 DEF AtReturn, OfWrite, Frame
<1>4. IrqInv'
  BY <1>1, <1>3, IrqRests DEF AtReturn, RunInv, Waits
<1>5. FairInv'
  <2>1. Tile' = Tile /\ want' = want /\ Over' = Over
    BY <1>1, RoundRests DEF Over, total
  <2> QED BY <1>1, <2>1 DEF AtReturn, Untouched, RunInv, FairInv, Stored, Written
<1> QED BY <1>2, <1>4, <1>5

\* On to the round's next call: the store has stored, the write has written.
LEMMA ThenKeeps ==
    ASSUME AtReturn, ret[runner] = "ok",
           (doing = "store" /\ Then("write")) \/ (doing = "write" /\ Then("read"))
    PROVE  ScriptInv' /\ IrqInv' /\ FairInv'
<1>1. /\ UNCHANGED <<phase, round, matched, raised, taken, disturbed>>
      /\ \/ doing = "store" /\ doing' = "write"
         \/ doing = "write" /\ doing' = "read"
  BY DEF Then
<1>2. ScriptInv'
  <2>1. total' = total
    BY DEF total
  <2> QED BY <1>1, <2>1 DEF AtReturn, RunInv, ScriptInv, Running
<1>3. OfWrite' <= OfWrite
  BY <1>1 DEF AtReturn, OfWrite, Frame
<1>4. IrqInv'
  BY <1>1, <1>3, IrqRests DEF AtReturn, RunInv, Waits
<1>5. FairInv'
  <2>1. Tile' = Tile /\ want' = want /\ Over' = Over
    BY <1>1, RoundRests DEF Over, total
  <2> QED BY <1>1, <2>1 DEF AtReturn, Untouched, RunInv, FairInv, Stored, Written
<1> QED BY <1>2, <1>4, <1>5

\* A round is over: it has taken its two interrupts, and its tile matched.
LEMMA RoundKeeps ==
    ASSUME AtReturn, ret[runner] = "ok", doing = "read", RoundOver(got[runner] = want)
    PROVE  ScriptInv' /\ IrqInv' /\ FairInv'
<1> DEFINE ok == got[runner] = want
<1>1. /\ phase = "tiles" /\ ~raised /\ round \in Nat \ {0} /\ round <= total /\ total \in Nat
      /\ matched \in Nat /\ taken \in Nat /\ taken >= 2 * (round - 1) + 2
  <2>1. Over = round - 1 /\ OfWrite = 2
    BY DEF AtReturn, Over, OfWrite, Running
  <2> QED BY <2>1, Runner DEF AtReturn, Running, RunInv, ScriptInv, IrqInv, Paid
<1>2. /\ UNCHANGED <<raised, taken, disturbed, total>>
      /\ matched' = (IF ok THEN matched + 1 ELSE matched)
      /\ IF round = total THEN phase' = "closing" /\ UNCHANGED <<round, doing>>
         ELSE round' = round + 1 /\ doing' = "store" /\ phase' = phase
  BY DEF RoundOver, total
<1>3. ~disturbed => ok /\ matched = round - 1 /\ \A t \in Others : req[t].op \notin {"write", "store"}
  BY <1>1 DEF AtReturn, RunInv, FairInv, Over
<1> HIDE DEF ok
<1>4. Over' = round /\ OfWrite' = 0
  BY <1>1, <1>2 DEF AtReturn, Over, OfWrite, Frame
<1>5. ScriptInv'
  <2>1. matched' \in Nat /\ round' \in Nat \ {0}
    BY <1>1, <1>2
  <2>2. round' <= total \/ phase' = "closing"
    BY <1>1, <1>2
  <2> QED BY <1>1, <1>2, <2>1, <2>2 DEF AtReturn, RunInv, ScriptInv
<1>6. IrqInv'
  <2>1. taken' >= 2 * Over' + OfWrite'
    BY <1>1, <1>2, <1>4
  <2> QED BY <2>1 DEF IrqInv, Waits, Paid, AtReturn
<1>7. FairInv'
  <2>1. ~disturbed' => matched' = Over'
    BY <1>1, <1>2, <1>3, <1>4
  <2> QED BY <1>1, <1>2, <1>3, <2>1 DEF FairInv, AtReturn
<1> QED BY <1>5, <1>6, <1>7

\* Whatever the call returned.
LEMMA BackKeeps ==
    ASSUME RunInv, RunnerStep, Back PROVE ScriptInv' /\ IrqInv' /\ FairInv'
<1>1. AtReturn /\ Returned(ret[runner], got[runner])
  BY BackFacts
<1>2. CASE Raise
  BY <1>1, <1>2, RaiseKeeps
<1>3. CASE ret[runner] = "ERESTARTSYS" /\ UNCHANGED runVars
  BY <1>1, <1>3, RetryKeeps
<1>4. CASE ret[runner] = "ok" /\ ((doing = "store" /\ Then("write")) \/ (doing = "write" /\ Then("read")))
  BY <1>1, <1>4, ThenKeeps
<1>5. CASE ret[runner] = "ok" /\ doing = "read" /\ RoundOver(got[runner] = want)
  BY <1>1, <1>5, RoundKeeps
<1> QED BY <1>1, <1>2, <1>3, <1>4, <1>5 DEF Returned

-----------------------------------------------------------------------------
(* Everybody else                                                          *)

\* A signal ends the script's wait for the lock, and its call fails.
LEMMA OwnSignalKeeps ==
    ASSUME RunInv, AnySignal(runner) PROVE ScriptInv' /\ IrqInv' /\ FairInv'
<1>1. /\ pc'[runner] = "return" /\ ret'[runner] = "ERESTARTSYS" /\ req'[runner] = req[runner]
      /\ pc[runner] \in {"write_lock", "read_lock"}
      /\ UNCHANGED <<received, sent, returned, slope, rxbuf>>
      /\ UNCHANGED <<phase, round, doing, matched, raised, taken, disturbed>>
      /\ \A t \in Others : req'[t] = req[t]
  <2>1. Signal(runner) /\ UNCHANGED devVars /\ UNCHANGED runVars /\ DriverInv
    BY DEF AnySignal, RunInv
  <2>2. \A t \in Threads \ {runner} : req'[t] = req[t]
    BY <2>1 DEF Signal, Interrupt, Refuse, Ret
  <2> QED BY <2>1, <2>2, SignalDecides, Runner DEF devVars, runVars, Others
<1>2. ScriptInv'
  <2>1. Running /\ req[runner] = CallOf(doing)
    BY <1>1, InRound
  <2> QED BY <1>1, <2>1, ScriptRests DEF RunInv, Rests, ScriptInv
<1>3. OfWrite' <= OfWrite
  BY <1>1 DEF OfWrite, Frame
<1>4. IrqInv'
  BY <1>1, <1>3, IrqRests DEF RunInv, Waits
<1>5. FairInv'
  <2>1. Tile' = Tile /\ want' = want /\ Over' = Over /\ Received' = Received
    BY <1>1, RoundRests DEF Over, total, Received
  <2> QED BY <1>1, <2>1 DEF RunInv, FairInv, Stored, Written
<1> QED BY <1>2, <1>4, <1>5

\* What another process does beside the script: the script's call stays where it is,
\* and its completions are its own.
Beside == /\ UNCHANGED <<phase, round, doing, matched, raised, taken>> /\ disturbed' \in BOOLEAN
          /\ pc'[runner] = pc[runner] /\ req'[runner] = req[runner]
          /\ ret'[runner] = ret[runner] /\ got'[runner] = got[runner]
          /\ pc[runner] \in Frame => UNCHANGED <<sent, returned>>

LEMMA BesideKeeps ==
    ASSUME RunInv, Beside PROVE ScriptInv' /\ IrqInv'
<1>1. ScriptInv'
  BY ScriptRests DEF RunInv, Beside, Rests, ScriptInv
<1>2. OfWrite' <= OfWrite
  BY OfWriteBound DEF Beside, OfWrite
<1>3. Waits(runner)'
  BY DEF RunInv, IrqInv, Beside, Waits, Frame
<1> QED BY <1>1, <1>2, <1>3, IrqRests DEF RunInv, Beside

\* It leaves what the round has done alone, unless it writes or stores.
LEMMA BesideFair ==
    ASSUME RunInv, Beside,
           phase # "main" /\ ~disturbed' =>
               ~disturbed /\ ((\A t \in Others : req[t].op \notin {"write", "store"}) =>
                  Untouched /\ \A t \in Others : req'[t].op \notin {"write", "store"})
    PROVE  FairInv'
<1>1. Tile' = Tile /\ want' = want /\ Over' = Over
  BY RoundRests DEF Over, total, Beside
<1> QED BY <1>1 DEF RunInv, FairInv, Stored, Written, Beside, Untouched

\* A call that another process makes is disturbing, or a read.
LEMMA OtherCallKeeps ==
    ASSUME RunInv, NEW t \in Others, OtherCall(t) PROVE ScriptInv' /\ IrqInv' /\ FairInv'
<1>1. PICK r \in OtherCalls : /\ Call(t, r, Entry(r))
                              /\ disturbed' = (disturbed \/
                                    (phase # "main" /\ r.op \in {"write", "store"}))
  BY DEF OtherCall
<1>2. UNCHANGED devVars /\ UNCHANGED <<phase, round, doing, matched, raised, taken>>
  BY DEF OtherCall
<1>3. t \in Threads /\ t # runner /\ disturbed \in BOOLEAN
  BY DEF Others, RunInv, ScriptInv
<1>4. /\ \A u \in Threads \ {t} : req'[u] = req[u] /\ pc'[u] = pc[u]
      /\ req'[t] = r /\ UNCHANGED <<ret, got, received, sent, returned, slope, rxbuf>>
  <2>1. pc \in [Threads -> Labels] /\ req = [v \in Threads |-> req[v]]
    BY Facts DEF RunInv, DriverInv, ControlInv, TransportInv, CallInv
  <2> QED BY <1>1, <1>2, <1>3, <2>1 DEF Call, chanVars, devVars
<1>5. Beside
  BY <1>1, <1>2, <1>3, <1>4, Runner DEF Beside
<1>6. Untouched
  BY <1>4 DEF Untouched, Received
<1>7. ASSUME phase # "main", ~disturbed', \A u \in Others : req[u].op \notin {"write", "store"}
      PROVE  \A u \in Others : req'[u].op \notin {"write", "store"}
  BY <1>1, <1>3, <1>4, <1>7 DEF Others
<1>8. ~disturbed' => ~disturbed
  BY <1>1
<1> QED BY <1>5, <1>6, <1>7, <1>8, BesideKeeps, BesideFair

\* A signal that reaches another process.
LEMMA OtherSignalKeeps ==
    ASSUME RunInv, NEW t \in Others, AnySignal(t) PROVE ScriptInv' /\ IrqInv' /\ FairInv'
<1>1. /\ t \in Threads /\ t # runner /\ DriverInv /\ disturbed \in BOOLEAN
      /\ Signal(t) /\ UNCHANGED devVars /\ UNCHANGED aborted
      /\ UNCHANGED <<phase, round, doing, matched, raised, taken, disturbed>>
  BY DEF AnySignal, RunInv, ScriptInv, Others, runVars
<1>2. Calls(t)
  BY <1>1 DEF Calls
<1>3. Beside
  BY <1>1, <1>2, StepLocal, Runner DEF Beside
<1>4. UNCHANGED <<req, received, slope, rxbuf>>
  BY <1>1 DEF Signal, Interrupt, Refuse, Ret, devVars
<1>5. Untouched
  BY <1>4 DEF Untouched, Received
<1> QED BY <1>1, <1>3, <1>4, <1>5, BesideKeeps, BesideFair

\* A step of another process in its call.
LEMMA OtherStepKeeps ==
    ASSUME RunInv, NEW t \in Others, Step(t), UNCHANGED runVars PROVE ScriptInv' /\ IrqInv' /\ FairInv'
<1>1. /\ t \in Threads /\ t # runner /\ DriverInv /\ disturbed \in BOOLEAN
      /\ UNCHANGED <<phase, round, doing, matched, raised, taken, disturbed>>
  BY DEF RunInv, ScriptInv, Others, runVars
<1>2. Beside
  BY <1>1, StepLocal, Runner DEF Beside
<1>3. \A u \in Others \ {t} : req'[u] = req[u]
  BY <1>1, StepLocal DEF Others
<1>4. ASSUME \A u \in Others : req[u].op \notin {"write", "store"}
      PROVE  Untouched /\ \A u \in Others : req'[u].op \notin {"write", "store"}
  <2>1. Untouched /\ req'[t].op \notin {"write", "store"}
    <3>1. CASE Ends(t)
      BY <3>1, Kinds DEF Ends
    <3>2. CASE req'[t] = req[t] /\ Decided(t)
      BY <1>4, <3>2, Kinds DEF Decided, Untouched
    <3> QED BY <1>1, <3>1, <3>2, StepDecides
  <2> QED BY <1>3, <1>4, <2>1
<1> QED BY <1>1, <1>2, <1>4, BesideKeeps, BesideFair

\* A round that is under way has not taken more than its own interrupts.
LEMMA RoundOwes ==
    ASSUME RunInv, pc[runner] \in Frame PROVE phase = "tiles" /\ 2 * Over + 2 <= 2 * total
<1>1. Running /\ round \in Nat \ {0} /\ total \in Nat
  BY InRound, Runner DEF Frame
<1> QED BY <1>1 DEF Running, Over

\* The channels and the stream leave what has been read alone.
LEMMA DmaFair ==
    ASSUME RunInv, Dma, UNCHANGED <<phase, round, doing, matched, raised, disturbed>> PROVE FairInv'
<1>1. DriverInv
  BY DEF RunInv
<1>2. UNCHANGED <<pc, req, ret, got, slope, received>> /\ (received # 0 => UNCHANGED Received)
  BY <1>1, DmaMoves
<1>3. Tile' = Tile /\ want' = want /\ Over' = Over
  BY RoundRests DEF Over, total
<1>4. phase = "tiles" => Running
  BY DEF RunInv, ScriptInv, Running
<1> QED BY <1>2, <1>3, <1>4, RoundCalls DEF RunInv, ScriptInv, FairInv, Stored, Written

\* An interrupt is one that the round's write waits for, or nobody's.
LEMMA IrqKeeps ==
    ASSUME RunInv, Irq PROVE ScriptInv' /\ IrqInv' /\ FairInv'
<1>1. /\ DriverInv /\ Dma /\ UNCHANGED <<phase, round, doing, matched, raised, disturbed>>
      /\ taken' = CountedIrq(taken) /\ disturbed \in BOOLEAN /\ taken \in 0 .. 2 * total
  BY DEF RunInv, ScriptInv, Irq, Dma
<1>2. /\ UNCHANGED <<pc, req, ret, got>>
      /\ TxDone => sent' /\ UNCHANGED returned
      /\ RxDone => returned' /\ UNCHANGED sent
  BY <1>1, DmaMoves
<1>3. ScriptInv'
  BY <1>1, <1>2, ScriptRests DEF RunInv, Rests, ScriptInv
<1>4. TxDone \/ RxDone
  BY DEF Irq
<1>5. Waits(runner)'
  BY <1>2, <1>4 DEF RunInv, IrqInv, Waits
<1>6. PICK n \in Nat : n = Over /\ n = Over'
  BY <1>1, OverRests DEF RunInv
<1>7. PICK w, v \in 0 .. 2 : w = OfWrite /\ v = OfWrite'
  BY OfWriteBound
<1>8. ASSUME phase # "main", ~raised PROVE taken' >= 2 * n + v
  <2>1. taken >= 2 * n + w
    BY <1>6, <1>7, <1>8 DEF RunInv, IrqInv, Paid
  <2>2. taken' >= taken /\ taken' \in Nat /\ taken \in Nat
    BY <1>1, Runner DEF CountedIrq
  <2>3. CASE pc[runner] \notin Frame
    <3>1. v = w
      BY <1>1, <1>2, <1>7, <2>3 DEF OfWrite
    <3> QED BY <2>1, <2>2, <3>1
  <2>4. CASE pc[runner] \in Frame
    <3>1. phase = "tiles" /\ 2 * n + 2 <= 2 * total /\ total \in Nat
      BY <1>6, <2>4, RoundOwes, Runner
    <3>2. v <= w + 1
      BY <1>1, <1>2, <1>4, <1>7, <2>4, <3>1 DEF OfWrite
    <3> QED BY <1>1, <2>1, <3>1, <3>2 DEF CountedIrq
  <2> QED BY <2>3, <2>4
<1>9. Paid'
  BY <1>1, <1>6, <1>7, <1>8, Zenon DEF Paid
<1>10. FairInv'
  BY <1>1, DmaFair
<1> QED BY <1>3, <1>5, <1>9, <1>10 DEF IrqInv

\* A beat moves.
LEMMA StreamKeeps ==
    ASSUME RunInv, Stream PROVE ScriptInv' /\ IrqInv' /\ FairInv'
<1>1. /\ DriverInv /\ Dma /\ UNCHANGED <<phase, round, doing, matched, raised, taken, disturbed>>
      /\ BeatIn \/ BeatOut \/ BeatLost
  BY DEF RunInv, Stream, Dma, runVars
<1>2. UNCHANGED <<pc, req, ret, got, sent, returned>>
  BY <1>1, DmaMoves
<1>3. Beside
  BY <1>1, <1>2 DEF Beside, RunInv, ScriptInv
<1> QED BY <1>1, <1>3, BesideKeeps, DmaFair

\* Every step keeps the invariant.
LEMMA NextRun ==
    ASSUME RunInv, [RNext]_allVars PROVE RunInv'
<1>1. DriverInv'
  BY NextDriver
<1>2. ScriptInv' /\ IrqInv' /\ FairInv'
  <2>1. CASE Main
    BY <2>1, MainKeeps
  <2>2. CASE SystemCall
    BY <2>2, SystemCallKeeps
  <2>3. CASE RunnerStep
    BY <2>3, BackKeeps, InsideKeeps
  <2>4. CASE AnySignal(runner)
    BY <2>4, OwnSignalKeeps
  <2>5. ASSUME NEW t \in Others, OtherCall(t) \/ AnySignal(t) \/ (Step(t) /\ UNCHANGED runVars)
        PROVE  ScriptInv' /\ IrqInv' /\ FairInv'
    BY <2>5, OtherCallKeeps, OtherSignalKeeps, OtherStepKeeps
  <2>6. CASE Irq
    BY <2>6, IrqKeeps
  <2>7. CASE Stream
    BY <2>7, StreamKeeps
  <2>8. CASE UNCHANGED allVars
    <3>1. UNCHANGED vars /\ UNCHANGED runVars
      BY <2>8 DEF allVars
    <3>2. /\ UNCHANGED <<phase, round, doing, matched, raised, taken, disturbed>>
          /\ UNCHANGED <<pc, req, ret, got, sent, returned, slope, received, rxbuf>>
      BY <3>1 DEF vars, runVars, transportVars, threadVars, chanVars, devVars
    <3>3. Beside /\ Untouched
      BY <3>2 DEF Beside, Untouched, Received, RunInv, ScriptInv
    <3> QED BY <3>2, <3>3, BesideKeeps, BesideFair
  <2> QED BY <2>1, <2>2, <2>3, <2>4, <2>5, <2>6, <2>7, <2>8 DEF RNext
<1> QED BY <1>1, <1>2 DEF RunInv

LEMMA RunInvariant == RSpec => []RunInv
BY InitScript, NextRun, PTL DEF RSpec

\* A run that ends without an exception exits with 0, unless another process wrote a
\* tile or stored a slope between its three calls (run-tile.py 98-124, 149-161): no
\* failed, timed-out, interrupted or repeated call, lost beat or late completion shows
\* as a wrong result, for any tiles, slopes and number of processes.
THEOREM FairVerdict == RSpec => []VerdictIsFair
<1>1. RunInv => VerdictIsFair
  <2> SUFFICES ASSUME RunInv, phase = "exited", ~raised, ~disturbed PROVE rc = 0
    BY DEF VerdictIsFair
  <2>1. matched = total
    BY DEF RunInv, FairInv, Over
  <2>2. taken >= 2 * total /\ total \in Nat \ {0} /\ taken \in Nat
    BY Runner DEF RunInv, ScriptInv, IrqInv, Paid, Over, OfWrite
  <2> QED BY <2>1, <2>2 DEF rc
<1> QED BY <1>1, RunInvariant, PTL

\* A run that ends without an exception has taken an interrupt of each channel for each
\* of its tiles (run-tile.py 14-17, 58-71): no tile came back by polling alone.
THEOREM InterruptsTaken == RSpec => []TilesTakeInterrupts
<1>1. RunInv => TilesTakeInterrupts
  <2> SUFFICES ASSUME RunInv, phase = "exited", ~raised PROVE taken = 2 * total
    BY DEF TilesTakeInterrupts
  <2>1. taken >= 2 * total /\ taken \in 0 .. 2 * total /\ total \in Nat
    BY Runner DEF RunInv, ScriptInv, IrqInv, Paid, Over, OfWrite
  <2> QED BY <2>1
<1> QED BY <1>1, RunInvariant, PTL
=============================================================================
