----------------------- MODULE SparseCnnDriverProofs -----------------------
(* Theorems about the sparse CNN driver, for any processes and any tiles.  *)
EXTENDS SparseCnnDriver, AccelTransportProofs

LEMMA StepFrame ==
    ASSUME FrameInv, NEW t \in Threads, Step(t) PROVE FrameInv'
<1>1. CASE CallStep(t)
  BY <1>1, AcquireKeeps, WriteKeeps, CopyKeeps, UnlockKeeps, ReturnKeeps DEF CallStep
<1>2. CASE Transport(t)
  BY <1>2, PrepRxKeeps, PrepTxKeeps, SubmitRxKeeps, SubmitTxKeeps, IssueRxKeeps,
     IssueTxKeeps, WaitTxKeeps, WaitRxKeeps, DiscardKeeps DEF Transport, TileStep
<1>3. CASE sparse_cnn_accept(t)
  BY <1>3, AcceptKeeps DEF sparse_cnn_accept
<1>4. CASE sparse_cnn_start(t)
  BY <1>4, StartKeeps DEF sparse_cnn_start
<1>5. CASE sparse_cnn_finish(t)
  <2>1. CASE Poll(t, done, "finish")
    BY <2>1, PollKeeps
  <2>2. CASE At(t, "finish") /\ Goto(t, "skip") /\ UNCHANGED <<lock, chanVars>>
    BY <2>2, Moves DEF Goto, At, Labels, Locked, Frame, TxLabels, RxLabels
  <2>3. CASE At(t, "skip") /\ Publish(t)
    BY <2>3, FinishKeeps
  <2> QED BY <1>5, <2>1, <2>2, <2>3 DEF sparse_cnn_finish
<1>6. CASE sparse_cnn_result(t)
  BY <1>6, ResultKeeps DEF sparse_cnn_result
<1> QED BY <1>1, <1>2, <1>3, <1>4, <1>5, <1>6 DEF Step

LEMMA NextFrame ==
    ASSUME FrameInv, [Next]_vars PROVE FrameInv'
<1>1. ASSUME NEW t \in Threads, Calls(t) PROVE FrameInv'
  BY <1>1, CallKeeps, InterruptKeeps DEF Calls, FileCall, Signal
<1>2. ASSUME NEW t \in Threads, Step(t) PROVE FrameInv'
  BY <1>2, StepFrame
<1>3. CASE TxDone
  BY <1>3, TxDoneKeeps
<1>4. CASE BeatIn
  BY <1>4, BeatSentKeeps DEF BeatIn, threadVars
<1>5. CASE Latch \/ UNCHANGED vars
  BY <1>5, KeepsFrame DEF Latch, vars, transportVars, threadVars, chanVars, frameVars
<1> QED BY <1>1, <1>2, <1>3, <1>4, <1>5 DEF Next, Dma

LEMMA StepCalls ==
    ASSUME FrameInv, CallInv, NEW t \in Threads, Step(t) PROVE CallInv'
<1>1. CASE CallStep(t)
  BY <1>1, AcquireCalls, WriteCalls, CopyCalls, UnlockCalls, ReturnCalls DEF CallStep
<1>2. CASE Transport(t)
  BY <1>2, PrepRxCalls, PrepTxCalls, SubmitRxCalls, SubmitTxCalls, IssueRxCalls,
     IssueTxCalls, WaitTxCalls, WaitRxCalls, DiscardCalls DEF Transport, TileStep
<1>3. CASE sparse_cnn_accept(t)
  BY <1>3, AcceptCalls DEF sparse_cnn_accept
<1>4. CASE sparse_cnn_start(t)
  BY <1>4, StartCalls DEF sparse_cnn_start
<1>5. CASE sparse_cnn_finish(t)
  <2>1. CASE Poll(t, done, "finish")
    BY <2>1, PollCalls
  <2>2. CASE At(t, "finish") /\ Goto(t, "skip") /\ UNCHANGED <<lock, received, txbuf, chanVars>>
    <3>1. Sized(req[t]) /\ ret' \in [Threads -> Codes]
      BY <2>2 DEF CallInv, InWrite, Frame, At, Goto
    <3> QED BY <2>2, <3>1, MovesOnly DEF Goto, Labels, Locked, Frame, InWrite, InRead
  <2>3. CASE At(t, "skip") /\ Publish(t)
    BY <2>3, FinishCalls DEF Codes
  <2> QED BY <1>5, <2>1, <2>2, <2>3 DEF sparse_cnn_finish
<1>6. CASE sparse_cnn_result(t)
  BY <1>6, ResultCalls DEF sparse_cnn_result
<1> QED BY <1>1, <1>2, <1>3, <1>4, <1>5, <1>6 DEF Step

LEMMA NextCalls ==
    ASSUME FrameInv, CallInv, [Next]_vars PROVE CallInv'
<1>1. ASSUME NEW t \in Threads, Calls(t) PROVE CallInv'
  BY <1>1, CallCalls, InterruptCalls DEF Calls, FileCall, Signal
<1>2. ASSUME NEW t \in Threads, Step(t) PROVE CallInv'
  BY <1>2, StepCalls
<1>3. CASE TxDone
  BY <1>3, DoneCalls
<1>4. CASE BeatIn
  BY <1>4, BeatSentCalls DEF BeatIn, threadVars
<1>5. CASE Latch \/ UNCHANGED vars
  BY <1>5, KeepsCalls DEF Latch, vars, transportVars, threadVars, chanVars, callVars
<1> QED BY <1>1, <1>2, <1>3, <1>4, <1>5 DEF Next, Dma

\* The inductive invariant of this driver.  The FSM is out of idle only under
\* a lock holder that has started it and not yet seen DONE, unless a wait has
\* timed out: that is why it is idle whenever the lock is free.
Waiting == {"rx_issue", "tx_issue", "wait_tx", "wait_rx", "poll"}

DeviceInv ==
    /\ req \in [Threads -> Writes \cup Reads \cup {NoCall}]
    /\ state \in {"idle", "run", "latch"}
    /\ done \in BOOLEAN /\ en \in BOOLEAN /\ aborted \in BOOLEAN
    /\ done => state = "idle"
    /\ ~aborted /\ state # "idle" => lock \in Threads /\ pc[lock] \in Waiting

LEMMA NextDevice ==
    ASSUME FrameInv, CallInv, DeviceInv, [Next]_vars PROVE DeviceInv'
<1>0. /\ pc \in [Threads -> Labels] /\ ret \in [Threads -> Codes]
      /\ \A t \in Threads : pc[t] \in Locked => lock = t
      /\ NoThread \notin Threads
  BY TransportAssumption DEF FrameInv, Shape, CallInv, Exclusive
<1>1. ASSUME NEW t \in Threads, Calls(t) PROVE DeviceInv'
  BY <1>0, <1>1 DEF Calls, FileCall, Signal, Call, Interrupt, Refuse, Ret, At, devVars, DeviceInv,
                    Waiting, Locked, Frame
<1>2. ASSUME NEW t \in Threads, CallStep(t), UNCHANGED <<devVars, sc, aborted>> PROVE DeviceInv'
  BY <1>0, <1>2 DEF CallStep, Acquire, accel_write, CopyFromUser, Unlock, Return, ToUser, Leave,
                    Refuse, Ret, Goto, At, devVars, DeviceInv, Waiting, Locked, Frame
<1>3. ASSUME NEW t \in Threads, Transport(t) PROVE DeviceInv'
  <2>1. CASE PrepRx(t) \/ PrepTx(t) \/ SubmitRx(t) \/ SubmitTx(t) \/ Discard(t)
    BY <1>0, <1>3, <2>1
       DEF Transport, PrepRx, PrepTx, SubmitRx, SubmitTx, Discard, Leave, Fail, Ret, Goto, At,
           devVars, DeviceInv, Waiting, Locked, Frame
  <2>2. CASE IssueRx(t) \/ IssueTx(t)
    BY <1>0, <1>3, <2>2
       DEF Transport, IssueRx, IssueTx, Goto, At, devVars, DeviceInv, Waiting, Locked, Frame
  <2>3. CASE WaitTx(t) \/ WaitRx(t)
    BY <1>0, <1>3, <2>3
       DEF Transport, WaitTx, WaitRx, Leave, Fail, Ret, Goto, At, devVars, DeviceInv, Waiting,
           Locked, Frame
  <2> QED BY <1>3, <2>1, <2>2, <2>3 DEF Transport, TileStep
<1>4. ASSUME NEW t \in Threads, sparse_cnn_accept(t) PROVE DeviceInv'
  BY <1>0, <1>4 DEF sparse_cnn_accept, Accept, Leave, Ret, Goto, At, devVars, DeviceInv, Waiting,
                    Locked, Frame
<1>5. ASSUME NEW t \in Threads, sparse_cnn_start(t) PROVE DeviceInv'
  BY <1>0, <1>5 DEF sparse_cnn_start, Start, Goto, At, DeviceInv, Waiting, Locked, Frame
<1>6. ASSUME NEW t \in Threads, sparse_cnn_finish(t) PROVE DeviceInv'
  BY <1>0, <1>6 DEF sparse_cnn_finish, Poll, Publish, Leave, Ret, Goto, At, devVars, DeviceInv,
                    Waiting, Locked, Frame
<1>7. ASSUME NEW t \in Threads, sparse_cnn_result(t) PROVE DeviceInv'
  BY <1>0, <1>7 DEF sparse_cnn_result, Result, Leave, Ret, At, devVars, DeviceInv, Waiting, Locked,
                    Frame
<1>8. CASE BeatIn
  BY <1>0, <1>8 DEF BeatIn, threadVars, DeviceInv
<1>9. CASE Latch
  BY <1>0, <1>9 DEF Latch, transportVars, threadVars, DeviceInv
<1>10. CASE (TxDone /\ UNCHANGED <<devVars, sc, aborted>>) \/ UNCHANGED vars
  BY <1>10 DEF TxDone, vars, transportVars, threadVars, devVars, DeviceInv
<1> QED BY <1>1, <1>2, <1>3, <1>4, <1>5, <1>6, <1>7, <1>8, <1>9, <1>10 DEF Next, Step, Dma

-----------------------------------------------------------------------------
(* The transactional device                                                *)

\* The tile of a write, and what the accelerator has accumulated of it.
Prefix(tile, n) == [i \in 1 .. n |-> Beat(tile, i)]
Whole(t) == Prefix(req[t].tile, beats(req[t]))

\* All its beats are in: about to be latched, or latched.
Finished(t) == \/ state = "latch" /\ sum = Whole(t)
               \/ state = "idle" /\ regs = Whole(t)

\* From accept to start the FSM is idle; from then on the tile that the labels
\* are at is the one the accelerator is at.
TileInv ==
    /\ sc = [acc |-> sc.acc, skip |-> sc.skip]
    /\ \A t \in Threads :
          /\ pc[t] \in {"rx_prep", "tx_prep", "rx_submit", "tx_submit", "start"} => state = "idle"
          /\ pc[t] \in {"rx_issue", "tx_issue"} => state = "run" /\ sum = <<>>
          /\ pc[t] = "wait_tx" =>
                IF tx.st = "issued" THEN state = "run" /\ sum = Prefix(req[t].tile, tx.pos)
                ELSE Finished(t)
          /\ pc[t] \in {"wait_rx", "poll"} => Finished(t)
          /\ pc[t] \in {"finish", "skip"} => state = "idle" /\ regs = Whole(t)
          /\ pc[t] = "skip" => sc.acc = regs
    /\ sc.acc = sc.skip \/ \E t \in Threads : pc[t] = "skip"

DriverInv == TransportInv /\ DeviceInv /\ TileInv

LEMMA AppendPrefix ==
    ASSUME NEW x, NEW n \in Nat
    PROVE  Append(Prefix(x, n), Beat(x, n + 1)) = Prefix(x, n + 1)
<1> DEFINE S == {Beat(x, i) : i \in Nat}
<1>1. Prefix(x, n) \in Seq(S) /\ Len(Prefix(x, n)) = n
  BY DEF Prefix
<1> QED BY <1>1 DEF Prefix

LEMMA EmptyPrefix ==
    ASSUME NEW x PROVE Prefix(x, 0) = <<>>
BY DEF Prefix

\* What the steps below need of the other invariants.
LEMMA Facts ==
    ASSUME DriverInv
    PROVE  /\ pc \in [Threads -> Labels]
           /\ \A t, u \in Threads : pc[t] \in Locked /\ pc[u] \in Locked => t = u
           /\ \A t \in Threads : pc[t] \in InWrite => Sized(req[t])
           /\ \A t \in Threads : pc[t] \in Frame => txbuf = req[t].tile
           /\ \A t \in Threads : pc[t] \in {"start", "rx_issue", "tx_issue"} => tx = Queued(t)
           /\ tx.st = "issued" => tx.frame \in Threads /\ pc[tx.frame] = "wait_tx"
           /\ sent => tx.st # "issued"
           /\ done => state = "idle"
BY DEF DriverInv, TransportInv, FrameInv, CallInv, ReplyInv, DeviceInv, Shape, Exclusive, TxInv,
       Armed, Queued, TxLabels

TileLabels == {"rx_prep", "tx_prep", "rx_submit", "tx_submit", "start", "rx_issue", "tx_issue",
               "wait_tx", "wait_rx", "poll", "finish", "skip"}

\* A thread moves, not to a label of which the invariant asks something.
LEMMA Apart ==
    ASSUME DriverInv, NEW t \in Threads, NEW l,
           pc' = [pc EXCEPT ![t] = l], l \notin TileLabels, pc[t] # "skip", pc[t] # "wait_tx",
           \A u \in Threads \ {t} : req'[u] = req[u],
           UNCHANGED <<state, sum, regs, sc, tx>>
    PROVE  TileInv'
<1>1. \A u \in Threads : pc'[u] = IF u = t THEN l ELSE pc[u]
  BY Facts
<1>2. \A u \in Threads : pc'[u] \in TileLabels => u # t /\ pc'[u] = pc[u] /\ Whole(u)' = Whole(u)
  BY <1>1 DEF Whole, Prefix, beats, Beat
<1>3. \A u \in Threads : pc[u] = "skip" <=> pc'[u] = "skip"
  BY <1>1 DEF TileLabels
<1> QED BY <1>2, <1>3 DEF DriverInv, TileInv, TileLabels, Finished

\* Nothing the invariant speaks of changes but the channels.
LEMMA KeepsTile ==
    ASSUME DriverInv, UNCHANGED <<pc, req, state, sum, regs, sc>>,
           tx' = tx \/ (tx.st # "issued" /\ tx'.st # "issued")
    PROVE  TileInv'
BY DEF DriverInv, TileInv, Finished, Whole

LEMMA CallsTile ==
    ASSUME DriverInv, NEW t \in Threads,
           Calls(t) \/ (CallStep(t) /\ UNCHANGED <<devVars, sc>>) \/ sparse_cnn_result(t)
    PROVE  TileInv'
<1>1. /\ UNCHANGED <<state, sum, regs, sc, tx>>
      /\ pc[t] \in {"user", "write_lock", "read_lock", "write", "copy_in", "unlock", "return", "result"}
      /\ \A u \in Threads \ {t} : req'[u] = req[u]
  BY DEF Calls, FileCall, Signal, Call, Interrupt, CallStep, Acquire, accel_write, CopyFromUser,
         Unlock, Return, ToUser, sparse_cnn_result, Result, Leave, Refuse, Ret, Goto, At, devVars,
         chanVars, DriverInv, TransportInv, CallInv
<1>2. \E l \in {"write", "read_lock", "return", "copy_in", "result", "write_lock", "accept", "unlock",
                "user"} : pc' = [pc EXCEPT ![t] = l]
  BY DEF Calls, FileCall, Signal, Call, Interrupt, CallStep, Acquire, accel_write, CopyFromUser,
         Unlock, Return, ToUser, sparse_cnn_result, Result, Leave, Refuse, Ret, Goto
<1> QED BY <1>1, <1>2, Apart DEF TileLabels

LEMMA AcceptTile ==
    ASSUME DriverInv, NEW t \in Threads, sparse_cnn_accept(t) PROVE TileInv'
<1>1. CASE Leave(t, "EBUSY")
  BY <1>1, Apart DEF sparse_cnn_accept, Accept, Leave, Ret, At, devVars, chanVars, TileLabels
<1>2. CASE state = "idle" /\ (Goto(t, "rx_prep") \/ Goto(t, "tx_prep"))
  BY <1>2, Facts DEF sparse_cnn_accept, Accept, Goto, At, devVars, chanVars, DriverInv, TileInv,
                     Finished, Whole
<1> QED BY <1>1, <1>2 DEF sparse_cnn_accept, Accept

\* Before anything is issued.
LEMMA PrepareTile ==
    ASSUME DriverInv, NEW t \in Threads, UNCHANGED <<devVars, sc>>,
           PrepRx(t) \/ PrepTx(t) \/ SubmitRx(t) \/ SubmitTx(t)
    PROVE  TileInv'
<1>1. /\ pc[t] \in {"rx_prep", "tx_prep", "rx_submit", "tx_submit"} /\ state = "idle" /\ req' = req
      /\ \A u \in Threads : u # t => pc[u] \notin TileLabels
  BY Facts DEF PrepRx, PrepTx, SubmitRx, SubmitTx, Leave, Fail, Ret, Goto, At, DriverInv, TileInv,
               TileLabels, Locked, Frame
<1>2. \E l \in {"tx_prep", "rx_submit", "tx_submit", "start", "discard", "unlock"} :
         pc' = [pc EXCEPT ![t] = l]
  BY DEF PrepRx, PrepTx, SubmitRx, SubmitTx, Leave, Fail, Ret, Goto
<1> QED BY <1>1, <1>2, Facts DEF devVars, DriverInv, TileInv, TileLabels

LEMMA StartTile ==
    ASSUME DriverInv, NEW t \in Threads, sparse_cnn_start(t) PROVE TileInv'
<1>1. /\ pc[t] = "start" /\ state' = "run" /\ sum' = <<>> /\ UNCHANGED <<req, regs, sc, tx>>
      /\ \A u \in Threads : u # t => pc[u] \notin TileLabels
  BY Facts DEF sparse_cnn_start, Start, Goto, At, chanVars, DriverInv, TileInv, TileLabels, Locked,
               Frame
<1>2. \E l \in {"rx_issue", "tx_issue"} : pc' = [pc EXCEPT ![t] = l]
  BY DEF sparse_cnn_start, Start, Goto
<1> QED BY <1>1, <1>2, Facts DEF DriverInv, TileInv, TileLabels

LEMMA IssueTile ==
    ASSUME DriverInv, NEW t \in Threads, UNCHANGED <<devVars, sc>>, IssueRx(t) \/ IssueTx(t)
    PROVE  TileInv'
<1>1. /\ pc[t] \in {"rx_issue", "tx_issue"} /\ state = "run" /\ sum = <<>>
      /\ UNCHANGED <<req, state, sum, regs, sc>>
      /\ \A u \in Threads : u # t => pc[u] \notin TileLabels
  BY Facts DEF IssueRx, IssueTx, Goto, At, devVars, DriverInv, TileInv, TileLabels, Locked, Frame
<1>2. CASE IssueRx(t)
  BY <1>1, <1>2, Facts DEF IssueRx, Goto, DriverInv, TileInv, TileLabels
<1>3. CASE IssueTx(t)
  <2>1. tx' = [st |-> "issued", pos |-> 0, frame |-> t]
    BY <1>1, <1>3, Facts DEF IssueTx, Issued, Queued
  <2> QED BY <1>1, <1>3, <2>1, Facts, EmptyPrefix DEF IssueTx, Goto, DriverInv, TileInv, TileLabels
<1> QED BY <1>2, <1>3

LEMMA WaitTile ==
    ASSUME DriverInv, NEW t \in Threads, UNCHANGED <<devVars, sc>>,
           WaitTx(t) \/ WaitRx(t) \/ Discard(t) \/ Poll(t, done, "finish")
    PROVE  TileInv'
<1>1. /\ pc[t] \in {"wait_tx", "wait_rx", "poll", "discard"}
      /\ UNCHANGED <<req, state, sum, regs, sc>>
      /\ \A u \in Threads : u # t => pc[u] \notin TileLabels
  BY Facts DEF WaitTx, WaitRx, Discard, Poll, Leave, Fail, Ret, Goto, At, devVars, TileLabels, Locked,
               Frame
<1>2. \/ \E l \in {"discard", "unlock"} : pc' = [pc EXCEPT ![t] = l]
      \/ pc[t] # "discard" /\ Finished(t) /\ \E l \in {"wait_rx", "poll"} : pc' = [pc EXCEPT ![t] = l]
      \/ Finished(t) /\ done /\ pc' = [pc EXCEPT ![t] = "finish"]
  BY Facts DEF WaitTx, WaitRx, Discard, Poll, Leave, Fail, Ret, Goto, At, DriverInv, TileInv
<1>3. Finished(t)' = Finished(t) /\ Whole(t)' = Whole(t)
  BY <1>1 DEF Finished, Whole
<1> QED BY <1>1, <1>2, <1>3, Facts DEF DriverInv, TileInv, TileLabels, Finished

LEMMA FinishTile ==
    ASSUME DriverInv, NEW t \in Threads, sparse_cnn_finish(t) PROVE TileInv'
<1>1. CASE Poll(t, done, "finish") /\ UNCHANGED sc
  BY <1>1, WaitTile DEF sparse_cnn_finish
<1>2. CASE At(t, "finish") /\ sc' = [sc EXCEPT !.acc = regs] /\ Goto(t, "skip")
  <2>1. /\ UNCHANGED <<req, state, sum, regs>> /\ state = "idle" /\ regs = Whole(t)
        /\ \A u \in Threads : u # t => pc[u] \notin TileLabels
    BY <1>2, Facts DEF sparse_cnn_finish, Goto, At, devVars, DriverInv, TileInv, TileLabels, Locked,
                       Frame
  <2>2. pc'[t] = "skip" /\ \A u \in Threads : u # t => pc'[u] = pc[u]
    BY <1>2, Facts DEF Goto
  <2>3. sc' = [acc |-> regs, skip |-> sc.skip]
    BY <1>2 DEF DriverInv, TileInv
  <2> QED BY <2>1, <2>2, <2>3 DEF DriverInv, TileInv, TileLabels, Whole
<1>3. CASE At(t, "skip") /\ sc' = [sc EXCEPT !.skip = regs] /\ Publish(t)
  <2>1. /\ UNCHANGED <<req, state, sum, regs>> /\ sc.acc = regs
        /\ \A u \in Threads : u # t => pc[u] \notin TileLabels
    BY <1>3, Facts DEF sparse_cnn_finish, Publish, Leave, Ret, At, devVars, DriverInv, TileInv,
                       TileLabels, Locked, Frame
  <2>2. pc'[t] = "unlock" /\ \A u \in Threads : u # t => pc'[u] = pc[u]
    BY <1>3, Facts DEF Publish, Leave, Ret
  <2>3. sc' = [acc |-> regs, skip |-> regs]
    BY <1>3, <2>1 DEF DriverInv, TileInv
  <2> QED BY <2>1, <2>2, <2>3 DEF DriverInv, TileInv, TileLabels
<1> QED BY <1>1, <1>2, <1>3 DEF sparse_cnn_finish

LEMMA BeatTile ==
    ASSUME DriverInv, BeatIn PROVE TileInv'
<1> DEFINE f == tx.frame
<1>1. f \in Threads /\ pc[f] = "wait_tx" /\ \A u \in Threads : u # f => pc[u] \notin TileLabels
  BY Facts DEF BeatIn, HasBeat, TileLabels, Locked, Frame
<1>2. tx.pos \in Nat /\ sum = Prefix(req[f].tile, tx.pos) /\ txbuf = req[f].tile
  BY <1>1, Facts DEF BeatIn, HasBeat, DriverInv, TileInv, TransportInv, FrameInv, Shape, AnyChannel,
                     Frame
<1>3. sum' = Prefix(req[f].tile, tx.pos + 1)
  BY <1>2, AppendPrefix DEF BeatIn
<1>4. tx' = [st |-> IF TxLast THEN "moved" ELSE "issued", pos |-> tx.pos + 1, frame |-> f]
  BY DEF BeatIn, BeatSent, DriverInv, TransportInv, FrameInv, Shape, AnyChannel
<1>5. UNCHANGED <<pc, req, sc, regs>>
  BY DEF BeatIn, threadVars
<1>6. CASE TxLast
  <2>1. sum' = Prefix(req[f].tile, beats(req[f])) /\ state' = "latch" /\ tx'.st = "moved"
    BY <1>3, <1>4, <1>6 DEF TxLast, BeatIn
  <2> QED BY <1>1, <1>5, <2>1 DEF DriverInv, TileInv, TileLabels, Finished, Whole
<1>7. CASE ~TxLast
  <2>1. state' = "run" /\ tx'.st = "issued" /\ tx'.pos = tx.pos + 1
    BY <1>4, <1>7 DEF BeatIn
  <2> QED BY <1>1, <1>3, <1>5, <2>1 DEF DriverInv, TileInv, TileLabels
<1> QED BY <1>6, <1>7

LEMMA LatchTile ==
    ASSUME DriverInv, Latch PROVE TileInv'
BY DEF Latch, transportVars, threadVars, chanVars, DriverInv, TileInv, Finished, Whole

LEMMA NextTile ==
    ASSUME DriverInv, [Next]_vars PROVE TileInv'
<1>1. ASSUME NEW t \in Threads, Calls(t) \/ Step(t) PROVE TileInv'
  <2>1. CASE Transport(t)
    BY <2>1, PrepareTile, IssueTile, WaitTile DEF Transport, TileStep
  <2> QED BY <1>1, <2>1, CallsTile, AcceptTile, StartTile, FinishTile DEF Step
<1>2. CASE TxDone /\ UNCHANGED <<devVars, sc>>
  BY <1>2, KeepsTile DEF TxDone, NoDesc, threadVars, devVars
<1>3. CASE UNCHANGED vars
  BY <1>3, KeepsTile DEF vars, transportVars, threadVars, chanVars, devVars
<1> QED BY <1>1, <1>2, <1>3, BeatTile, LatchTile DEF Next, Dma

LEMMA NextReply ==
    ASSUME DriverInv, [Next]_vars PROVE ReplyInv'
<1> USE DEF DriverInv
<1>1. ASSUME NEW t \in Threads, Calls(t) PROVE ReplyInv'
  BY <1>1, CallEffect, InterruptEffect DEF Calls, FileCall, Signal
<1>2. ASSUME NEW t \in Threads, CallStep(t) PROVE ReplyInv'
  BY <1>2, AcquireEffect, WriteEffect, CopyEffect, ReturnEffect DEF CallStep
<1>3. ASSUME NEW t \in Threads, Transport(t) PROVE ReplyInv'
  BY <1>3, TileEffect DEF Transport
<1>4. ASSUME NEW t \in Threads, sparse_cnn_accept(t) \/ sparse_cnn_start(t) \/ sparse_cnn_result(t)
      PROVE  ReplyInv'
  BY <1>4, AcceptEffect, StartEffect, ResultEffect
     DEF sparse_cnn_accept, sparse_cnn_start, sparse_cnn_result
<1>5. ASSUME NEW t \in Threads, sparse_cnn_finish(t) PROVE ReplyInv'
  <2>1. CASE At(t, "finish") /\ Goto(t, "skip") /\ UNCHANGED txbuf
    BY <2>1, ReplyPasses DEF At, Frame
  <2> QED BY <1>5, <2>1, PollEffect, PublishEffect DEF sparse_cnn_finish
<1>6. CASE Dma \/ Latch \/ UNCHANGED vars
  BY <1>6, KeepsReply DEF Dma, BeatIn, TxDone, Latch, vars, transportVars, threadVars
<1> QED BY <1>1, <1>2, <1>3, <1>4, <1>5, <1>6 DEF Next, Step

LEMMA DriverInvariant == Spec => []DriverInv
<1>1. Init => DriverInv
  <2> SUFFICES ASSUME Init PROVE DriverInv
    OBVIOUS
  <2>1. \A t \in Threads : pc[t] = "user"
    BY DEF Init, TransportInit
  <2>2. TileInv
    BY <2>1 DEF Init, Cleared, TileInv
  <2>3. DeviceInv
    BY DEF Init, TransportInit, DeviceInv
  <2> QED BY <2>2, <2>3, InitFrame, InitCalls, InitReply DEF Init, DriverInv, TransportInv
<1>2. DriverInv /\ [Next]_vars => DriverInv'
  BY NextFrame, NextCalls, NextReply, NextDevice, NextTile DEF DriverInv, TransportInv
<1> QED BY <1>1, <1>2, PTL DEF Spec

\* Every variable of the driver keeps its type.
THEOREM SparseCnnDriverTyped == Spec => []TypeOK
<1>1. DriverInv => TypeOK
  BY TransportTyped DEF DriverInv, TransportInv, DeviceInv, TypeOK
<1> QED BY <1>1, DriverInvariant, PTL

\* No callback outlives the stack frame its completion is on, whatever fails,
\* times out or completes late (accel_transport.c 121-122, 190-221), for any
\* number of processes and any size of tile.
THEOREM NoCallbackIntoDeadFrame == Spec => []NoDeadCallback
<1>1. DriverInv => NoDeadCallback
  BY FrameInvImplies DEF DriverInv, TransportInv
<1> QED BY <1>1, DriverInvariant, PTL

\* Whenever the lock is free the tile FSM is idle, unless some wait has timed
\* out (accel_transport.c 164-179): no other failure leaves it running.
THEOREM OnlyATimeoutWedges == Spec => []OnlyTimeoutsWedge
<1>1. DriverInv => OnlyTimeoutsWedge
  BY TransportAssumption DEF DriverInv, DeviceInv, OnlyTimeoutsWedge
<1> QED BY <1>1, DriverInvariant, PTL

-----------------------------------------------------------------------------
(* Every step is one of TileDevice, or none                                *)

\* The result changes where a tile commits and nowhere else.
LEMMA AbortMaps ==
    ASSUME NEW t \in Threads, Aborts(t), UNCHANGED sc PROVE Device!Next
BY DEF Aborts, Device!Next, Device!Abort, Device!Decide, Results, Settled, Got

LEMMA QuietMaps ==
    ASSUME Quiet, UNCHANGED sc PROVE UNCHANGED Device!vars
BY DEF Quiet, Device!vars, Results, Settled, Got

LEMMA BeginMaps ==
    ASSUME NEW t \in Threads, Begins(t), UNCHANGED sc PROVE Device!Next
BY DEF Begins, Device!Next, Device!Begin, Results, Settled, Got

LEMMA CallMaps ==
    ASSUME NEW t \in Threads, NEW r \in Writes \cup Reads, Enters(t, r), UNCHANGED sc
    PROVE  Device!Next
BY DEF Enters, Device!Next, Device!Call, Results, Settled, Got

LEMMA ReturnMaps ==
    ASSUME DriverInv, NEW t \in Threads, Returns(t), UNCHANGED sc PROVE Device!Next
<1>1. Got' = [Got EXCEPT ![t] = NoResult]
  BY DEF Returns, Got, DriverInv, TransportInv, ReplyInv
<1> QED BY <1>1 DEF Returns, Device!Next, Device!Return, Results, Settled

\* A read returns both registers of one tile.
LEMMA ReadMaps ==
    ASSUME DriverInv, NEW t \in Threads, pc[t] = "result", req[t] \in Reads,
           Answers(t), got' = [got EXCEPT ![t] = sc], UNCHANGED sc
    PROVE  Device!Next
<1>1. sc = Settled
  BY Facts DEF DriverInv, TileInv, Settled, Locked, Frame
<1>2. Got' = [Got EXCEPT ![t] = Results]
  BY <1>1 DEF Got, Results, DriverInv, TransportInv, ReplyInv
<1> QED BY <1>2 DEF Answers, Device!Next, Device!Read, Device!Decide, Results, Settled

\* A write commits the registers of its own tile, all its beats in.
LEMMA CommitMaps ==
    ASSUME DriverInv, NEW t \in Threads, pc[t] = "skip", Commits(t),
           sc' = [sc EXCEPT !.skip = regs]
    PROVE  Device!Next
<1>1. Sized(req[t]) /\ regs = Whole(t)
  BY Facts DEF DriverInv, TileInv, InWrite, Frame
<1>2. Settled' = Reduced(req[t], 0)
  BY <1>1 DEF Settled, Reduced, Whole, Prefix, DriverInv, TileInv
<1>3. Reduced(req[t], 0) # Cleared
  <2>1. Whole(t) # <<>>
    BY <1>1, BeatsBound, TransportAssumption DEF Whole, Prefix
  <2> QED BY <2>1 DEF Reduced, Cleared, Whole, Prefix
<1>4. Results' = Reduced(req[t], 0)
  BY <1>2, <1>3 DEF Results
<1> QED BY <1>4 DEF Commits, Device!Next, Device!Commit, Device!Decide, Got

LEMMA StepMaps ==
    ASSUME DriverInv, NEW t \in Threads, Calls(t) \/ Step(t)
    PROVE  Device!Next \/ UNCHANGED Device!vars
<1> USE DEF DriverInv
<1>1. CASE Calls(t)
  BY <1>1, CallEffect, CallMaps, InterruptEffect, AbortMaps DEF Calls, FileCall, Signal
<1>2. CASE CallStep(t) /\ UNCHANGED sc
  BY <1>2, AcquireEffect, WriteEffect, CopyEffect, ReturnEffect, QuietMaps, AbortMaps, BeginMaps,
     ReturnMaps DEF CallStep
<1>3. CASE Transport(t)
  BY <1>3, TileEffect, QuietMaps, AbortMaps DEF Transport
<1>4. CASE sparse_cnn_accept(t) \/ sparse_cnn_start(t)
  BY <1>4, AcceptEffect, StartEffect, QuietMaps, AbortMaps DEF sparse_cnn_accept, sparse_cnn_start
<1>5. CASE sparse_cnn_finish(t)
  <2>1. CASE Poll(t, done, "finish") /\ UNCHANGED sc
    BY <2>1, PollEffect, QuietMaps, AbortMaps
  <2>2. CASE At(t, "finish") /\ sc' = [sc EXCEPT !.acc = regs] /\ Goto(t, "skip") /\ UNCHANGED lock
    <3>1. Quiet
      BY <2>2, Passes DEF TransportInv, At, InTile, Frame
    <3>2. sc'.skip = sc.skip
      BY <2>2 DEF TileInv
    <3> QED BY <3>1, <3>2 DEF Quiet, Device!vars, Results, Settled, Got
  <2>3. CASE At(t, "skip") /\ sc' = [sc EXCEPT !.skip = regs] /\ Publish(t)
    BY <2>3, PublishEffect, CommitMaps DEF At
  <2> QED BY <1>5, <2>1, <2>2, <2>3 DEF sparse_cnn_finish
<1>6. CASE sparse_cnn_result(t)
  <2>1. pc[t] = "result" /\ UNCHANGED sc /\ Result(t, RESULT_BYTES, sc)
    BY <1>6 DEF sparse_cnn_result, Result, At
  <2> QED BY <2>1, ResultEffect, ReadMaps, AbortMaps
<1> QED BY <1>1, <1>2, <1>3, <1>4, <1>5, <1>6 DEF Step

LEMMA NextMaps ==
    ASSUME DriverInv, [Next]_vars PROVE [Device!Next]_(Device!vars)
<1>1. CASE Dma \/ Latch \/ UNCHANGED vars
  <2>1. UNCHANGED <<threadVars, txbuf, lock, sc>>
    BY <1>1 DEF Dma, BeatIn, TxDone, Latch, vars, transportVars, threadVars
  <2> QED BY <2>1, KeepsReply, QuietMaps DEF DriverInv
<1> QED BY <1>1, StepMaps DEF Next

LEMMA InitMaps ==
    ASSUME Init PROVE Device!Init
BY TransportAssumption
   DEF Init, TransportInit, Device!Init, Outcome, Owner, Results, Settled, Cleared, Got

\* The driver implements the transactional device: read() returns accumulator
\* and skip count of the last tile whose write succeeded, both of that tile and
\* of all its beats, for any number of processes, any tiles and any size of the
\* buffer (accel_transport.c 118-223, sparse_cnn.c 53-105).
THEOREM ImplementsTileDevice == Spec => TilesAreTransactions
<1>1. DriverInv /\ [Next]_vars => [Device!Next]_(Device!vars)
  BY NextMaps
<1>2. Init => Device!Init
  BY InitMaps
<1> QED BY <1>1, <1>2, DriverInvariant, PTL DEF Spec, TilesAreTransactions, Device!Spec
=============================================================================
