------------------------ MODULE AccelTransportProofs ------------------------
(***************************************************************************)
(* What accel_transport.c keeps true of its lock and its two channels,     *)
(* whatever the register layer and the accelerator do: FrameInv, from      *)
(* which NoDeadCallback follows.  One lemma per step of the code; the      *)
(* register layers put them together.                                      *)
(***************************************************************************)
EXTENDS AccelTransport, TLAPS

\* Labels inside the locked region, all labels, and those of a thread that may
\* have an armed channel.
Locked == Frame \cup {"copy_in", "unlock", "result", "store_reg"}
Labels == Locked \cup {"user", "write", "write_lock", "return", "read_lock",
                       "store", "store_lock"}
TxLabels == {"start", "rx_issue", "tx_issue", "wait_tx"}
RxLabels == TxLabels \cup {"tx_submit", "wait_rx", "discard"}
AnyChannel == [st : DescStates, pos : Nat, frame : Threads \cup {NoThread}]

Shape == /\ pc \in [Threads -> Labels]
         /\ tx \in AnyChannel /\ rx \in AnyChannel
         /\ sent \in BOOLEAN /\ returned \in BOOLEAN

\* Whoever is inside the locked region holds the lock.
Exclusive == \A t \in Threads : pc[t] \in Locked => lock = t

\* A descriptor that has been submitted and not yet issued.
Queued(t) == [st |-> "submitted", pos |-> 0, frame |-> t]

\* An armed channel calls back into a frame that is still there; its completion
\* has not been signalled.  Until it is issued its descriptor is the one that
\* the holder of the lock prepared, and its completion is clear.
TxInv == /\ Armed(tx) => tx.frame \in Threads /\ pc[tx.frame] \in TxLabels /\ ~sent
         /\ \A t \in Threads :
               /\ pc[t] \in {"rx_submit", "tx_submit"} => tx = Prepared(t)
               /\ pc[t] \in {"start", "rx_issue", "tx_issue"} => tx = Queued(t)
               /\ pc[t] \in {"accept", "rx_prep", "tx_prep", "rx_submit", "tx_submit"}
                     => ~sent
RxInv == /\ Armed(rx) => /\ DUPLEX /\ ~returned
                         /\ rx.frame \in Threads /\ pc[rx.frame] \in RxLabels
         /\ \A t \in Threads :
               /\ pc[t] \in {"rx_prep", "rx_submit", "rx_issue", "wait_rx"} => DUPLEX
               /\ pc[t] \in {"tx_prep", "rx_submit"} /\ DUPLEX => rx = Prepared(t)
               /\ pc[t] \in {"tx_submit", "start", "rx_issue"} /\ DUPLEX => rx = Queued(t)
               /\ pc[t] \in {"accept", "rx_prep", "tx_prep", "rx_submit"} => ~returned

FrameInv == Shape /\ Exclusive /\ TxInv /\ RxInv

\* What FrameInv speaks of.
frameVars == <<pc, lock, tx, rx, sent, returned>>

-----------------------------------------------------------------------------
\* The invariant is enough.
LEMMA FrameInvImplies ==
    ASSUME FrameInv PROVE NoDeadCallback
BY DEF FrameInv, Exclusive, TxInv, RxInv, NoDeadCallback, Locked, Frame, TxLabels, RxLabels

LEMMA InitFrame ==
    ASSUME TransportInit PROVE FrameInv
BY TransportAssumption
   DEF TransportInit, FrameInv, Shape, Exclusive, TxInv, RxInv, Labels, Locked, Frame,
       AnyChannel, DescStates, NoDesc, Armed

LEMMA KeepsFrame ==
    ASSUME FrameInv, UNCHANGED frameVars PROVE FrameInv'
BY DEF frameVars, FrameInv, Shape, Exclusive, TxInv, RxInv, Armed

\* A thread moves and nothing else does: between two labels outside the lock,
\* or inside it to a label of which the invariant asks nothing more.
LEMMA Moves ==
    ASSUME FrameInv, NEW t \in Threads, NEW l \in Labels,
           pc' = [pc EXCEPT ![t] = l], UNCHANGED <<lock, chanVars>>,
           l \in Locked => pc[t] \in Locked,
           Armed(tx) /\ pc[t] \in TxLabels => l \in TxLabels,
           Armed(rx) /\ pc[t] \in RxLabels => l \in RxLabels,
           l \notin {"accept", "rx_prep", "tx_prep", "rx_submit", "tx_submit"},
           l \notin {"start", "rx_issue", "tx_issue", "wait_rx"}
    PROVE  FrameInv'
<1>1. Shape'
  BY DEF FrameInv, Shape, chanVars
<1>2. \A u \in Threads : pc'[u] = IF u = t THEN l ELSE pc[u]
  BY DEF FrameInv, Shape
<1>3. Exclusive'
  BY <1>2 DEF FrameInv, Exclusive
<1>4. TxInv'
  BY <1>2 DEF FrameInv, TxInv, Armed, chanVars
<1>5. RxInv'
  BY <1>2 DEF FrameInv, RxInv, Armed, chanVars
<1> QED BY <1>1, <1>3, <1>4, <1>5 DEF FrameInv
-----------------------------------------------------------------------------
(* Steps that move a thread and nothing else                               *)

LEMMA CallKeeps ==
    ASSUME FrameInv, NEW t \in Threads, NEW r, NEW l \in {"write", "read_lock", "store"},
           Call(t, r, l)
    PROVE  FrameInv'
BY Moves DEF Call, At, Labels, Locked, Frame, TxLabels, RxLabels

LEMMA InterruptKeeps ==
    ASSUME FrameInv, NEW t \in Threads, NEW l \in {"write_lock", "read_lock"},
           Interrupt(t, l)
    PROVE  FrameInv'
BY Moves DEF Interrupt, Refuse, Ret, At, Labels, Locked, Frame, TxLabels, RxLabels

LEMMA WriteKeeps ==
    ASSUME FrameInv, NEW t \in Threads, accel_write(t) PROVE FrameInv'
BY Moves DEF accel_write, Refuse, Ret, Goto, At, Labels, Locked, Frame, TxLabels, RxLabels

LEMMA ReturnKeeps ==
    ASSUME FrameInv, NEW t \in Threads, Return(t) PROVE FrameInv'
BY Moves DEF Return, ToUser, At, Labels, Locked, Frame, TxLabels, RxLabels

LEMMA PollKeeps ==
    ASSUME FrameInv, NEW t \in Threads, NEW done, Poll(t, done, "finish") PROVE FrameInv'
BY Moves DEF Poll, Leave, Ret, Goto, At, Labels, Locked, Frame, TxLabels, RxLabels

LEMMA FinishKeeps ==
    ASSUME FrameInv, NEW t \in Threads, NEW code,
           At(t, "finish") \/ At(t, "skip"), Publish(t) \/ Reject(t, code)
    PROVE  FrameInv'
BY Moves DEF Publish, Reject, Leave, Ret, At, Labels, Locked, Frame, TxLabels, RxLabels

LEMMA ResultKeeps ==
    ASSUME FrameInv, NEW t \in Threads, NEW bytes, NEW value, Result(t, bytes, value)
    PROVE  FrameInv'
BY Moves DEF Result, Leave, Ret, At, Labels, Locked, Frame, TxLabels, RxLabels

-----------------------------------------------------------------------------
(* The lock                                                                *)

LEMMA AcquireKeeps ==
    ASSUME FrameInv, NEW t \in Threads, NEW from, NEW to \in {"copy_in", "result", "store_reg"},
           Acquire(t, from, to), from \in {"write_lock", "read_lock", "store_lock"}
    PROVE  FrameInv'
BY TransportAssumption
   DEF Acquire, Goto, At,
       FrameInv, Shape, Exclusive, TxInv, RxInv, Armed, chanVars, Prepared, Queued,
       Labels, Locked, Frame, TxLabels, RxLabels, AnyChannel, DescStates

LEMMA UnlockKeeps ==
    ASSUME FrameInv, NEW t \in Threads, Unlock(t) PROVE FrameInv'
BY TransportAssumption
   DEF Unlock, ToUser, At,
       FrameInv, Shape, Exclusive, TxInv, RxInv, Armed, chanVars, Prepared, Queued,
       Labels, Locked, Frame, TxLabels, RxLabels, AnyChannel, DescStates

-----------------------------------------------------------------------------
(* The tile path, up to start                                              *)

LEMMA CopyKeeps ==
    ASSUME FrameInv, NEW t \in Threads, CopyFromUser(t) PROVE FrameInv'
<1>1. ~Armed(tx) /\ ~Armed(rx)
  BY DEF CopyFromUser, At, FrameInv, Exclusive, TxInv, RxInv, Locked, Frame, TxLabels, RxLabels
<1>2. CASE Leave(t, "EFAULT") /\ UNCHANGED <<sent, returned>>
  BY <1>2, Moves DEF CopyFromUser, Leave, Ret, Goto, At, chanVars,
                     Labels, Locked, Frame, TxLabels, RxLabels
<1>3. CASE ~sent' /\ ~returned' /\ Goto(t, "accept")
  BY <1>1, <1>3 DEF CopyFromUser, Goto, At, FrameInv, Shape, Exclusive, TxInv, RxInv, Armed,
                    Labels, Locked, Frame, Prepared, Queued
<1> QED BY <1>2, <1>3 DEF CopyFromUser

LEMMA AcceptKeeps ==
    ASSUME FrameInv, NEW t \in Threads, NEW busy, Accept(t, busy) PROVE FrameInv'
BY DEF Accept, Leave, Ret, Goto, At,
       FrameInv, Shape, Exclusive, TxInv, RxInv, Armed, chanVars, Prepared, Queued,
       Labels, Locked, Frame, TxLabels, RxLabels, AnyChannel, DescStates

LEMMA PrepRxKeeps ==
    ASSUME FrameInv, NEW t \in Threads, PrepRx(t) PROVE FrameInv'
BY DEF PrepRx, Leave, Ret, Goto, At,
       FrameInv, Shape, Exclusive, TxInv, RxInv, Armed, chanVars, Prepared, Queued,
       Labels, Locked, Frame, TxLabels, RxLabels, AnyChannel, DescStates

LEMMA PrepTxKeeps ==
    ASSUME FrameInv, NEW t \in Threads, PrepTx(t) PROVE FrameInv'
BY DEF PrepTx, Fail, Ret, Goto, At,
       FrameInv, Shape, Exclusive, TxInv, RxInv, Armed, chanVars, Prepared, Queued,
       Labels, Locked, Frame, TxLabels, RxLabels, AnyChannel, DescStates

LEMMA SubmitRxKeeps ==
    ASSUME FrameInv, NEW t \in Threads, SubmitRx(t) PROVE FrameInv'
BY DEF SubmitRx, Fail, Ret, Goto, At,
       FrameInv, Shape, Exclusive, TxInv, RxInv, Armed, chanVars, Prepared, Queued,
       Labels, Locked, Frame, TxLabels, RxLabels, AnyChannel, DescStates

LEMMA SubmitTxKeeps ==
    ASSUME FrameInv, NEW t \in Threads, SubmitTx(t) PROVE FrameInv'
BY DEF SubmitTx, Fail, Ret, Goto, At,
       FrameInv, Shape, Exclusive, TxInv, RxInv, Armed, chanVars, Prepared, Queued,
       Labels, Locked, Frame, TxLabels, RxLabels, AnyChannel, DescStates

LEMMA StartKeeps ==
    ASSUME FrameInv, NEW t \in Threads, Start(t) PROVE FrameInv'
BY DEF Start, Goto, At,
       FrameInv, Shape, Exclusive, TxInv, RxInv, Armed, chanVars, Prepared, Queued,
       Labels, Locked, Frame, TxLabels, RxLabels, AnyChannel, DescStates

-----------------------------------------------------------------------------
(* The transfers                                                           *)

LEMMA IssueRxKeeps ==
    ASSUME FrameInv, NEW t \in Threads, IssueRx(t) PROVE FrameInv'
BY DEF IssueRx, Issued, Goto, At,
       FrameInv, Shape, Exclusive, TxInv, RxInv, Armed, chanVars, Prepared, Queued,
       Labels, Locked, Frame, TxLabels, RxLabels, AnyChannel, DescStates

LEMMA IssueTxKeeps ==
    ASSUME FrameInv, NEW t \in Threads, IssueTx(t) PROVE FrameInv'
BY DEF IssueTx, Issued, Goto, At,
       FrameInv, Shape, Exclusive, TxInv, RxInv, Armed, chanVars, Prepared, Queued,
       Labels, Locked, Frame, TxLabels, RxLabels, AnyChannel, DescStates

LEMMA WaitTxKeeps ==
    ASSUME FrameInv, NEW t \in Threads, WaitTx(t) PROVE FrameInv'
BY DEF WaitTx, NoDesc, Fail, Ret, Goto, At,
       FrameInv, Shape, Exclusive, TxInv, RxInv, Armed, chanVars, Prepared, Queued,
       Labels, Locked, Frame, TxLabels, RxLabels, AnyChannel, DescStates

LEMMA WaitRxKeeps ==
    ASSUME FrameInv, NEW t \in Threads, WaitRx(t) PROVE FrameInv'
BY DEF WaitRx, NoDesc, Leave, Ret, Goto, At,
       FrameInv, Shape, Exclusive, TxInv, RxInv, Armed, chanVars, Prepared, Queued,
       Labels, Locked, Frame, TxLabels, RxLabels, AnyChannel, DescStates

LEMMA DiscardKeeps ==
    ASSUME FrameInv, NEW t \in Threads, Discard(t) PROVE FrameInv'
BY DEF Discard, NoDesc, Leave, Ret, At,
       FrameInv, Shape, Exclusive, TxInv, RxInv, Armed, chanVars, Prepared, Queued,
       Labels, Locked, Frame, TxLabels, RxLabels, AnyChannel, DescStates

LEMMA BeatSentKeeps ==
    ASSUME FrameInv, HasBeat, BeatSent, UNCHANGED <<pc, lock, rx, sent, returned>>
    PROVE  FrameInv'
<1> DEFINE s == IF TxLast THEN "moved" ELSE "issued"
<1>0. tx' = [st |-> s, pos |-> tx.pos + 1, frame |-> tx.frame] /\ s \in {"moved", "issued"}
  BY DEF BeatSent, FrameInv, Shape, AnyChannel
<1>1. /\ tx' \in AnyChannel /\ tx'.frame = tx.frame
      /\ Armed(tx) /\ tx'.st \in {"moved", "issued"}
  <2> HIDE DEF s
  <2> QED BY <1>0 DEF HasBeat, FrameInv, Shape, AnyChannel, DescStates, Armed
<1> QED BY <1>1 DEF HasBeat, FrameInv, Shape, Exclusive, TxInv, RxInv, Armed, Prepared, Queued

LEMMA BeatReturnedKeeps ==
    ASSUME FrameInv, NEW last, HasRoom, BeatReturned(last),
           UNCHANGED <<pc, lock, tx, sent, returned>>
    PROVE  FrameInv'
<1> DEFINE s == IF last \/ rx.pos + 1 = beats(req[rx.frame]) THEN "moved" ELSE "issued"
<1>0. rx' = [st |-> s, pos |-> rx.pos + 1, frame |-> rx.frame] /\ s \in {"moved", "issued"}
  BY DEF BeatReturned, FrameInv, Shape, AnyChannel
<1>1. /\ rx' \in AnyChannel /\ rx'.frame = rx.frame
      /\ Armed(rx) /\ rx'.st \in {"moved", "issued"}
  <2> HIDE DEF s
  <2> QED BY <1>0 DEF HasRoom, FrameInv, Shape, AnyChannel, DescStates, Armed
<1> QED BY <1>1 DEF HasRoom, FrameInv, Shape, Exclusive, TxInv, RxInv, Armed, Prepared, Queued

LEMMA TxDoneKeeps ==
    ASSUME FrameInv, TxDone PROVE FrameInv'
BY DEF TxDone, NoDesc, threadVars,
       FrameInv, Shape, Exclusive, TxInv, RxInv, Armed, chanVars, Prepared, Queued,
       Labels, Locked, Frame, TxLabels, RxLabels, AnyChannel, DescStates

LEMMA RxDoneKeeps ==
    ASSUME FrameInv, RxDone PROVE FrameInv'
BY DEF RxDone, NoDesc, threadVars,
       FrameInv, Shape, Exclusive, TxInv, RxInv, Armed, chanVars, Prepared, Queued,
       Labels, Locked, Frame, TxLabels, RxLabels, AnyChannel, DescStates

-----------------------------------------------------------------------------
(* Calls and sizes: what each label says of the call its thread is in, and *)
(* how far the transfers are.                                              *)

\* Where a tile's size has been accepted.
InWrite == Frame \cup {"write_lock", "copy_in"}
InRead  == {"read_lock", "result"}

Sized(r) == /\ r \in Writes
            /\ r.bytes # 0 /\ r.bytes % BEAT_BYTES = 0 /\ r.bytes <= MAX_BEATS * BEAT_BYTES

Within(chan) == /\ chan.pos \in 0 .. MAX_BEATS
                /\ chan.st \in {"prepared", "submitted"} => chan.pos = 0
                /\ chan.st = "issued" => chan.pos < beats(req[chan.frame])

CallInv == /\ req = [t \in Threads |-> req[t]]
           /\ ret \in [Threads -> Codes]
           /\ lock \in Threads \cup {NoThread}
           /\ received \in 0 .. MAX_BEATS * BEAT_BYTES
           /\ txbuf \in Tiles
           /\ \A t \in Threads : /\ pc[t] = "write" => req[t] \in Writes
                                 /\ pc[t] \in InWrite => Sized(req[t])
                                 /\ pc[t] \in InRead => req[t] \in Reads
           /\ Within(tx) /\ Within(rx)

\* What CallInv speaks of.
callVars == <<pc, req, ret, lock, received, txbuf, tx, rx>>

LEMMA BeatsBound ==
    ASSUME NEW r, Sized(r) PROVE beats(r) \in 1 .. MAX_BEATS
<1> DEFINE q == r.bytes \div BEAT_BYTES
<1>1. r.bytes \in Nat /\ BEAT_BYTES \in Nat \ {0} /\ MAX_BEATS \in Nat \ {0}
  BY TransportAssumption DEF Sized, Writes
<1>2. q \in Int /\ r.bytes = BEAT_BYTES * q
  BY <1>1 DEF Sized
<1>3. q > 0
  BY <1>1, <1>2 DEF Sized
<1>4. q <= MAX_BEATS
  BY <1>1, <1>2 DEF Sized
<1> QED BY <1>2, <1>3, <1>4 DEF beats

LEMMA KeepsCalls ==
    ASSUME CallInv, UNCHANGED callVars PROVE CallInv'
BY DEF callVars, CallInv, Within

\* A thread moves on in its call to a label that asks no more of the call.
LEMMA MovesOn ==
    ASSUME FrameInv, CallInv, NEW t \in Threads, NEW l \in Labels,
           pc' = [pc EXCEPT ![t] = l], UNCHANGED req,
           ret' \in [Threads -> Codes], lock' \in Threads \cup {NoThread},
           received' \in 0 .. MAX_BEATS * BEAT_BYTES, txbuf' \in Tiles,
           Within(tx)', Within(rx)',
           l # "write", l \in InWrite => Sized(req[t]), l \in InRead => req[t] \in Reads
    PROVE  CallInv'
<1>1. \A u \in Threads : pc'[u] = IF u = t THEN l ELSE pc[u]
  BY DEF FrameInv, Shape
<1> QED BY <1>1 DEF CallInv

LEMMA MovesOnly ==
    ASSUME FrameInv, CallInv, NEW t \in Threads, NEW l \in Labels,
           pc' = [pc EXCEPT ![t] = l], UNCHANGED <<req, lock, received, txbuf, chanVars>>,
           ret' \in [Threads -> Codes],
           l # "write", l \in InWrite => Sized(req[t]), l \in InRead => req[t] \in Reads
    PROVE  CallInv'
<1>1. Within(tx)' /\ Within(rx)'
  BY DEF CallInv, Within, chanVars
<1>2. lock' \in Threads \cup {NoThread} /\ received' \in 0 .. MAX_BEATS * BEAT_BYTES /\ txbuf' \in Tiles
  BY DEF CallInv
<1> QED BY <1>1, <1>2, MovesOn

\* A thread leaves its call or makes one; no channel is waiting for its beats.
LEMMA Switches ==
    ASSUME FrameInv, CallInv, NEW t \in Threads, NEW l \in Labels,
           pc[t] \in {"user", "return", "unlock"}, pc' = [pc EXCEPT ![t] = l],
           req' = [u \in Threads |-> req'[u]],
           \A u \in Threads \ {t} : req'[u] = req[u],
           ret' \in [Threads -> Codes], lock' \in Threads \cup {NoThread},
           UNCHANGED <<received, txbuf, tx, rx>>,
           l = "write" => req'[t] \in Writes, l \notin InWrite,
           l \in InRead => req'[t] \in Reads
    PROVE  CallInv'
<1>1. \A u \in Threads : pc'[u] = IF u = t THEN l ELSE pc[u]
  BY DEF FrameInv, Shape
<1>2. Within(tx)'
  BY <1>1 DEF FrameInv, TxInv, Armed, CallInv, Within, TxLabels
<1>3. Within(rx)'
  BY <1>1 DEF FrameInv, RxInv, Armed, CallInv, Within, TxLabels, RxLabels
<1> QED BY <1>1, <1>2, <1>3 DEF CallInv

LEMMA CallCalls ==
    ASSUME FrameInv, CallInv, NEW t \in Threads, NEW r, NEW l \in {"write", "read_lock", "store"},
           l = "write" => r \in Writes, l = "read_lock" => r \in Reads, Call(t, r, l)
    PROVE  CallInv'
<1>1. /\ ret' \in [Threads -> Codes] /\ lock' \in Threads \cup {NoThread}
      /\ req' = [u \in Threads |-> IF u = t THEN r ELSE req[u]]
  BY DEF Call, CallInv, Codes
<1> QED BY <1>1, Switches DEF Call, At, chanVars, Labels, Locked, Frame, InWrite, InRead

LEMMA ReturnCalls ==
    ASSUME FrameInv, CallInv, NEW t \in Threads, Return(t)
    PROVE  CallInv'
<1>1. /\ ret' \in [Threads -> Codes] /\ lock' \in Threads \cup {NoThread}
      /\ req' = [u \in Threads |-> IF u = t THEN NoCall ELSE req[u]]
  BY DEF Return, ToUser, CallInv, Codes
<1> QED BY <1>1, Switches DEF Return, ToUser, At, chanVars, Labels, Locked, Frame, InWrite, InRead

LEMMA UnlockCalls ==
    ASSUME FrameInv, CallInv, NEW t \in Threads, Unlock(t)
    PROVE  CallInv'
<1>1. /\ ret' \in [Threads -> Codes] /\ lock' \in Threads \cup {NoThread}
      /\ req' = [u \in Threads |-> IF u = t THEN NoCall ELSE req[u]]
  BY DEF Unlock, ToUser, CallInv, Codes
<1> QED BY <1>1, Switches DEF Unlock, ToUser, At, chanVars, Labels, Locked, Frame, InWrite, InRead

LEMMA InterruptCalls ==
    ASSUME FrameInv, CallInv, NEW t \in Threads, NEW l, Interrupt(t, l)
    PROVE  CallInv'
<1>1. ret' \in [Threads -> Codes]
  BY DEF Interrupt, Refuse, Ret, CallInv, Codes
<1> QED BY <1>1, MovesOnly DEF Interrupt, Refuse, Ret, Labels, Locked, Frame, InWrite, InRead

LEMMA AcquireCalls ==
    ASSUME FrameInv, CallInv, NEW t \in Threads, NEW from, NEW to, 
           <<from, to>> \in {<<"write_lock", "copy_in">>, <<"read_lock", "result">>,
                            <<"store_lock", "store_reg">>},
           Acquire(t, from, to)
    PROVE  CallInv'
BY MovesOn
   DEF Acquire, Goto, At, chanVars, CallInv, Within,
       Labels, Locked, Frame, InWrite, InRead, Codes

LEMMA WriteCalls ==
    ASSUME FrameInv, CallInv, NEW t \in Threads, accel_write(t)
    PROVE  CallInv'
<1>1. /\ ret' \in [Threads -> Codes] /\ req[t] \in Writes
      /\ pc'[t] = "write_lock" => Sized(req[t])
      /\ pc' = [pc EXCEPT ![t] = pc'[t]] /\ pc'[t] \in {"return", "write_lock"}
  BY DEF accel_write, Refuse, Ret, Goto, At, CallInv, Codes, Sized, FrameInv, Shape
<1> QED BY <1>1, MovesOnly DEF accel_write, Refuse, Ret, Goto, At, chanVars, Labels, Locked,
                               Frame, InWrite, InRead

LEMMA CopyCalls ==
    ASSUME FrameInv, CallInv, NEW t \in Threads, CopyFromUser(t)
    PROVE  CallInv'
<1>1. /\ ret' \in [Threads -> Codes] /\ txbuf' \in Tiles /\ Sized(req[t])
      /\ received' \in 0 .. MAX_BEATS * BEAT_BYTES
  BY TransportAssumption DEF CopyFromUser, Leave, Ret, Goto, At, CallInv, Codes, Sized, Writes,
                             InWrite, Frame
<1>2. Within(tx)' /\ Within(rx)'
  BY DEF CopyFromUser, Leave, Ret, Goto, CallInv, Within
<1>3. lock' \in Threads \cup {NoThread}
  BY DEF CopyFromUser, CallInv
<1> QED BY <1>1, <1>2, <1>3, MovesOn DEF CopyFromUser, Leave, Ret, Goto, At, Labels, Locked, Frame,
                                   InWrite, InRead

LEMMA AcceptCalls ==
    ASSUME FrameInv, CallInv, NEW t \in Threads, NEW busy, Accept(t, busy)
    PROVE  CallInv'
<1>1. ret' \in [Threads -> Codes] /\ Sized(req[t])
  BY DEF Accept, Leave, Ret, Goto, At, CallInv, Codes, InWrite, Frame
<1> QED BY <1>1, MovesOnly DEF Accept, Leave, Ret, Goto, Labels, Locked, Frame, InWrite, InRead

LEMMA PrepRxCalls ==
    ASSUME FrameInv, CallInv, NEW t \in Threads, PrepRx(t)
    PROVE  CallInv'
<1>1. /\ ret' \in [Threads -> Codes] /\ Sized(req[t]) /\ req' = req
      /\ lock' \in Threads \cup {NoThread} /\ txbuf' \in Tiles
      /\ received' \in 0 .. MAX_BEATS * BEAT_BYTES
  BY DEF PrepRx, Leave, Ret, Goto, At, CallInv, Codes, InWrite, Frame
<1>2. Within(tx)' /\ Within(rx)'
  BY TransportAssumption DEF PrepRx, Leave, Ret, Goto, NoDesc, Prepared, CallInv, Within
<1> QED BY <1>1, <1>2, MovesOn DEF PrepRx, Leave, Ret, Goto, At, Labels, Locked, Frame, InWrite, InRead

LEMMA PrepTxCalls ==
    ASSUME FrameInv, CallInv, NEW t \in Threads, PrepTx(t)
    PROVE  CallInv'
<1>1. /\ ret' \in [Threads -> Codes] /\ Sized(req[t]) /\ req' = req
      /\ lock' \in Threads \cup {NoThread} /\ txbuf' \in Tiles
      /\ received' \in 0 .. MAX_BEATS * BEAT_BYTES
  BY DEF PrepTx, Fail, Ret, Goto, At, CallInv, Codes, InWrite, Frame
<1>2. Within(tx)' /\ Within(rx)'
  BY TransportAssumption DEF PrepTx, Fail, Ret, Goto, NoDesc, Prepared, CallInv, Within
<1> QED BY <1>1, <1>2, MovesOn DEF PrepTx, Fail, Ret, Goto, At, Labels, Locked, Frame, InWrite, InRead

LEMMA SubmitRxCalls ==
    ASSUME FrameInv, CallInv, NEW t \in Threads, SubmitRx(t)
    PROVE  CallInv'
<1>1. /\ ret' \in [Threads -> Codes] /\ Sized(req[t]) /\ req' = req
      /\ lock' \in Threads \cup {NoThread} /\ txbuf' \in Tiles
      /\ received' \in 0 .. MAX_BEATS * BEAT_BYTES
  BY DEF SubmitRx, Fail, Ret, Goto, At, CallInv, Codes, InWrite, Frame
<1>2. Within(tx)' /\ Within(rx)'
  <2>1. pc[t] = "rx_submit" /\ rx = Prepared(t)
    BY DEF SubmitRx, At, FrameInv, TxInv, RxInv
  <2>2. rx' = Queued(t) \/ rx' = rx
    BY <2>1 DEF SubmitRx, Prepared, Queued
  <2> QED BY <2>2, TransportAssumption DEF SubmitRx, Fail, Ret, Goto, Queued, CallInv, Within
<1> QED BY <1>1, <1>2, MovesOn DEF SubmitRx, Fail, Ret, Goto, At, Labels, Locked, Frame, InWrite, InRead

LEMMA SubmitTxCalls ==
    ASSUME FrameInv, CallInv, NEW t \in Threads, SubmitTx(t)
    PROVE  CallInv'
<1>1. /\ ret' \in [Threads -> Codes] /\ Sized(req[t]) /\ req' = req
      /\ lock' \in Threads \cup {NoThread} /\ txbuf' \in Tiles
      /\ received' \in 0 .. MAX_BEATS * BEAT_BYTES
  BY DEF SubmitTx, Fail, Ret, Goto, At, CallInv, Codes, InWrite, Frame
<1>2. Within(tx)' /\ Within(rx)'
  <2>1. pc[t] = "tx_submit" /\ tx = Prepared(t)
    BY DEF SubmitTx, At, FrameInv, TxInv, RxInv
  <2>2. tx' = Queued(t) \/ tx' = tx
    BY <2>1 DEF SubmitTx, Prepared, Queued
  <2> QED BY <2>2, TransportAssumption DEF SubmitTx, Fail, Ret, Goto, Queued, CallInv, Within
<1> QED BY <1>1, <1>2, MovesOn DEF SubmitTx, Fail, Ret, Goto, At, Labels, Locked, Frame, InWrite, InRead

LEMMA StartCalls ==
    ASSUME FrameInv, CallInv, NEW t \in Threads, Start(t)
    PROVE  CallInv'
<1>1. Sized(req[t])
  BY DEF Start, At, CallInv, InWrite, Frame
<1>2. ret' \in [Threads -> Codes]
  BY DEF Start, Goto, CallInv
<1> QED BY <1>1, <1>2, MovesOnly DEF Start, Goto, At, chanVars, Labels, Locked, Frame, InWrite,
                                     InRead

LEMMA IssueRxCalls ==
    ASSUME FrameInv, CallInv, NEW t \in Threads, IssueRx(t)
    PROVE  CallInv'
<1>1. /\ ret' \in [Threads -> Codes] /\ Sized(req[t]) /\ req' = req
      /\ lock' \in Threads \cup {NoThread} /\ txbuf' \in Tiles
      /\ received' \in 0 .. MAX_BEATS * BEAT_BYTES
  BY DEF IssueRx, Goto, At, CallInv, Codes, InWrite, Frame
<1>2. Within(tx)' /\ Within(rx)'
  <2>1. pc[t] = "rx_issue" /\ rx = Queued(t)
    BY DEF IssueRx, At, FrameInv, TxInv, RxInv
  <2>2. rx' = [st |-> "issued", pos |-> 0, frame |-> t]
    BY <2>1 DEF IssueRx, Issued, Queued
  <2>3. beats(req[t]) \in 1 .. MAX_BEATS
    BY <1>1, BeatsBound
  <2> QED BY <1>1, <2>2, <2>3, TransportAssumption DEF IssueRx, Goto, CallInv, Within
<1> QED BY <1>1, <1>2, MovesOn DEF IssueRx, Goto, At, Labels, Locked, Frame, InWrite, InRead

LEMMA IssueTxCalls ==
    ASSUME FrameInv, CallInv, NEW t \in Threads, IssueTx(t)
    PROVE  CallInv'
<1>1. /\ ret' \in [Threads -> Codes] /\ Sized(req[t]) /\ req' = req
      /\ lock' \in Threads \cup {NoThread} /\ txbuf' \in Tiles
      /\ received' \in 0 .. MAX_BEATS * BEAT_BYTES
  BY DEF IssueTx, Goto, At, CallInv, Codes, InWrite, Frame
<1>2. Within(tx)' /\ Within(rx)'
  <2>1. pc[t] = "tx_issue" /\ tx = Queued(t)
    BY DEF IssueTx, At, FrameInv, TxInv, RxInv
  <2>2. tx' = [st |-> "issued", pos |-> 0, frame |-> t]
    BY <2>1 DEF IssueTx, Issued, Queued
  <2>3. beats(req[t]) \in 1 .. MAX_BEATS
    BY <1>1, BeatsBound
  <2> QED BY <1>1, <2>2, <2>3, TransportAssumption DEF IssueTx, Goto, CallInv, Within
<1> QED BY <1>1, <1>2, MovesOn DEF IssueTx, Goto, At, Labels, Locked, Frame, InWrite, InRead

LEMMA WaitTxCalls ==
    ASSUME FrameInv, CallInv, NEW t \in Threads, WaitTx(t)
    PROVE  CallInv'
<1>1. /\ ret' \in [Threads -> Codes] /\ Sized(req[t]) /\ req' = req
      /\ lock' \in Threads \cup {NoThread} /\ txbuf' \in Tiles
      /\ received' \in 0 .. MAX_BEATS * BEAT_BYTES
  BY DEF WaitTx, Fail, Ret, Goto, At, CallInv, Codes, InWrite, Frame
<1>2. Within(tx)' /\ Within(rx)'
  BY TransportAssumption DEF WaitTx, Fail, Ret, Goto, NoDesc, Prepared, CallInv, Within
<1> QED BY <1>1, <1>2, MovesOn DEF WaitTx, Fail, Ret, Goto, At, Labels, Locked, Frame, InWrite, InRead

LEMMA WaitRxCalls ==
    ASSUME FrameInv, CallInv, NEW t \in Threads, WaitRx(t)
    PROVE  CallInv'
<1>1. /\ ret' \in [Threads -> Codes] /\ Sized(req[t]) /\ req' = req
      /\ lock' \in Threads \cup {NoThread} /\ txbuf' \in Tiles
      /\ received' \in 0 .. MAX_BEATS * BEAT_BYTES
  BY DEF WaitRx, Leave, Ret, Goto, At, CallInv, Codes, InWrite, Frame
<1>2. Within(tx)' /\ Within(rx)'
  BY TransportAssumption DEF WaitRx, Leave, Ret, Goto, NoDesc, Prepared, CallInv, Within
<1> QED BY <1>1, <1>2, MovesOn DEF WaitRx, Leave, Ret, Goto, At, Labels, Locked, Frame, InWrite, InRead

LEMMA DiscardCalls ==
    ASSUME FrameInv, CallInv, NEW t \in Threads, Discard(t)
    PROVE  CallInv'
<1>1. /\ ret' \in [Threads -> Codes] /\ Sized(req[t]) /\ req' = req
      /\ lock' \in Threads \cup {NoThread} /\ txbuf' \in Tiles
      /\ received' \in 0 .. MAX_BEATS * BEAT_BYTES
  BY DEF Discard, Leave, Ret, At, CallInv, Codes, InWrite, Frame
<1>2. Within(tx)' /\ Within(rx)'
  BY TransportAssumption DEF Discard, Leave, Ret, NoDesc, Prepared, CallInv, Within
<1> QED BY <1>1, <1>2, MovesOn DEF Discard, Leave, Ret, At, Labels, Locked, Frame, InWrite, InRead

LEMMA PollCalls ==
    ASSUME FrameInv, CallInv, NEW t \in Threads, NEW done, Poll(t, done, "finish")
    PROVE  CallInv'
<1>1. /\ ret' \in [Threads -> Codes] /\ Sized(req[t]) /\ req' = req
      /\ lock' \in Threads \cup {NoThread} /\ txbuf' \in Tiles
      /\ received' \in 0 .. MAX_BEATS * BEAT_BYTES
  BY DEF Poll, Leave, Ret, Goto, At, CallInv, Codes, InWrite, Frame
<1>2. Within(tx)' /\ Within(rx)'
  BY DEF Poll, Leave, Ret, Goto, chanVars, CallInv, Within
<1> QED BY <1>1, <1>2, MovesOn DEF Poll, Leave, Ret, Goto, At, Labels, Locked, Frame, InWrite, InRead

LEMMA FinishCalls ==
    ASSUME FrameInv, CallInv, NEW t \in Threads, NEW code \in Codes, At(t, "finish") \/ At(t, "skip"),
           Publish(t) \/ Reject(t, code)
    PROVE  CallInv'
<1>1. /\ Sized(req[t]) /\ req' = req /\ pc[t] \in {"finish", "skip"}
  BY DEF Publish, Reject, Leave, Ret, At, CallInv, InWrite, Frame
<1>2. /\ ret' \in [Threads -> Codes]
      /\ lock' \in Threads \cup {NoThread} /\ txbuf' \in Tiles
  BY DEF Publish, Reject, Leave, Ret, CallInv, Codes
<1>3. received' \in 0 .. MAX_BEATS * BEAT_BYTES
  BY <1>1 DEF Publish, Reject, CallInv, Sized, Writes
<1>4. Within(tx)' /\ Within(rx)'
  BY DEF Publish, Reject, Leave, Ret, chanVars, CallInv, Within
<1> QED BY <1>1, <1>2, <1>3, <1>4, MovesOn
        DEF Publish, Reject, Leave, Ret, Labels, Locked, Frame, InWrite, InRead

LEMMA ResultCalls ==
    ASSUME FrameInv, CallInv, NEW t \in Threads, NEW bytes, NEW value, Result(t, bytes, value)
    PROVE  CallInv'
<1>1. ret' \in [Threads -> Codes]
  BY DEF Result, Leave, Ret, CallInv, Codes
<1> QED BY <1>1, MovesOnly DEF Result, Leave, Ret, Labels, Locked, Frame, InWrite, InRead

LEMMA BeatSentCalls ==
    ASSUME FrameInv, CallInv, HasBeat, BeatSent,
           UNCHANGED <<pc, req, ret, lock, received, txbuf, rx>>
    PROVE  CallInv'
<1> DEFINE b == beats(req[tx.frame])
<1> DEFINE s == IF TxLast THEN "moved" ELSE "issued"
<1>1. tx.frame \in Threads /\ pc[tx.frame] \in InWrite
  BY DEF HasBeat, FrameInv, TxInv, Armed, TxLabels, RxLabels, InWrite, Frame
<1>2. b \in 1 .. MAX_BEATS
  BY <1>1, BeatsBound DEF CallInv
<1>3. tx.pos \in Nat /\ tx.pos < b
  BY DEF HasBeat, CallInv, Within
<1>4. tx' = [st |-> s, pos |-> tx.pos + 1, frame |-> tx.frame]
  BY DEF BeatSent, TxLast, FrameInv, Shape, AnyChannel
<1>5. s = "moved" \/ (s = "issued" /\ tx.pos + 1 # b)
  BY DEF TxLast
<1>6. Within(tx)'
  <2> HIDE DEF b, s
  <2>1. b' = b
    BY <1>1, <1>4 DEF b
  <2>2. tx'.pos \in 0 .. MAX_BEATS /\ tx'.pos = tx.pos + 1 /\ tx'.st = s
    BY <1>2, <1>3, <1>4, TransportAssumption
  <2>3. tx'.st = "issued" => tx'.pos < b
    BY <2>2, <1>2, <1>3, <1>5
  <2>4. tx'.st \notin {"prepared", "submitted"}
    BY <2>2, <1>5
  <2> QED BY <2>1, <2>2, <2>3, <2>4 DEF Within, b
<1>7. Within(rx)'
  BY DEF CallInv, Within
<1> QED BY <1>6, <1>7 DEF CallInv

LEMMA BeatReturnedCalls ==
    ASSUME FrameInv, CallInv, NEW last, HasRoom, BeatReturned(last),
           UNCHANGED <<pc, req, ret, lock, received, txbuf, tx>>
    PROVE  CallInv'
<1> DEFINE b == beats(req[rx.frame])
<1> DEFINE s == IF last \/ rx.pos + 1 = b THEN "moved" ELSE "issued"
<1>1. rx.frame \in Threads /\ pc[rx.frame] \in InWrite
  BY DEF HasRoom, FrameInv, RxInv, Armed, TxLabels, RxLabels, InWrite, Frame
<1>2. b \in 1 .. MAX_BEATS
  BY <1>1, BeatsBound DEF CallInv
<1>3. rx.pos \in Nat /\ rx.pos < b
  BY DEF HasRoom, CallInv, Within
<1>4. rx' = [st |-> s, pos |-> rx.pos + 1, frame |-> rx.frame]
  BY DEF BeatReturned, TxLast, FrameInv, Shape, AnyChannel
<1>5. s = "moved" \/ (s = "issued" /\ rx.pos + 1 # b)
  BY DEF TxLast
<1>6. Within(rx)'
  <2> HIDE DEF b, s
  <2>1. b' = b
    BY <1>1, <1>4 DEF b
  <2>2. rx'.pos \in 0 .. MAX_BEATS /\ rx'.pos = rx.pos + 1 /\ rx'.st = s
    BY <1>2, <1>3, <1>4, TransportAssumption
  <2>3. rx'.st = "issued" => rx'.pos < b
    BY <2>2, <1>2, <1>3, <1>5
  <2>4. rx'.st \notin {"prepared", "submitted"}
    BY <2>2, <1>5
  <2> QED BY <2>1, <2>2, <2>3, <2>4 DEF Within, b
<1>7. Within(tx)'
  BY DEF CallInv, Within
<1> QED BY <1>6, <1>7 DEF CallInv

LEMMA DoneCalls ==
    ASSUME FrameInv, CallInv, TxDone \/ RxDone
    PROVE  CallInv'
BY TransportAssumption DEF TxDone, RxDone, NoDesc, threadVars, CallInv, Within

-----------------------------------------------------------------------------
\* The transport's part of the type invariants.
LEMMA TransportTyped ==
    ASSUME FrameInv, CallInv PROVE TransportTypeOK
<1>1. pc \in [Threads -> Frame \cup {"user", "write", "write_lock", "copy_in", "unlock", "return",
                                    "read_lock", "result", "store", "store_lock", "store_reg"}]
  BY DEF FrameInv, Shape, Labels, Locked, Frame
<1>2. tx \in Channel /\ rx \in Channel
  BY DEF FrameInv, Shape, AnyChannel, Channel, CallInv, Within
<1> QED BY <1>1, <1>2 DEF FrameInv, Shape, CallInv, TransportTypeOK

LEMMA InitCalls ==
    ASSUME TransportInit PROVE CallInv
BY TransportAssumption
   DEF TransportInit, CallInv, Within, NoDesc, Codes, InWrite, InRead, Frame

-----------------------------------------------------------------------------
(* What each step is to TileDevice                                         *)

\* A call has no outcome until a step gives it one, and its thread nothing to
\* show for it before.
ReplyInv ==
    /\ got = [t \in Threads |-> got[t]]
    /\ \A t \in Threads :
          /\ pc[t] = "user" => req[t] = NoCall /\ got[t] = NoResult
          /\ pc[t] \notin {"unlock", "return", "discard"} => ret[t] = "none"
          /\ pc[t] \in {"unlock", "return", "discard"} => ret[t] # "none"
          /\ pc[t] = "discard" => ret[t] # "ok"
          \* The tile in the buffer is that of the call in accel_run_tile.
          /\ pc[t] \in Frame => txbuf = req[t].tile

TransportInv == FrameInv /\ CallInv /\ ReplyInv

\* The effect of a step on everything but the device's result and parameter.
Quiet == UNCHANGED <<req, Outcome, Owner, got>>
Aborts(t) == /\ req[t] # NoCall /\ Outcome[t] = "none"
             /\ Outcome' = [Outcome EXCEPT ![t] = "failed"]
             /\ Owner' = IF Owner = t THEN NoThread ELSE Owner
             /\ UNCHANGED <<req, got>>
Begins(t) == /\ req[t] \in Writes /\ Outcome[t] = "none" /\ Owner = NoThread
             /\ Owner' = t
             /\ UNCHANGED <<req, Outcome, got>>
Commits(t) == /\ Owner = t /\ Outcome[t] = "none"
              /\ Outcome' = [Outcome EXCEPT ![t] = "ok"]
              /\ Owner' = NoThread
              /\ UNCHANGED <<req, got>>
Enters(t, r) == /\ req[t] = NoCall
                /\ req' = [req EXCEPT ![t] = r]
                /\ UNCHANGED <<Outcome, Owner, got>>
Answers(t) == /\ Owner = NoThread /\ Outcome[t] = "none"
              /\ Outcome' = [Outcome EXCEPT ![t] = "ok"]
              /\ UNCHANGED <<req, Owner>>
Returns(t) == /\ Outcome[t] # "none"
              /\ req' = [req EXCEPT ![t] = NoCall]
              /\ Outcome' = [Outcome EXCEPT ![t] = "none"]
              /\ got' = [got EXCEPT ![t] = NoResult]
              /\ UNCHANGED Owner

\* The owner is the thread that runs a tile.
LEMMA OwnerRuns ==
    ASSUME FrameInv, NEW t \in Threads
    PROVE  /\ Owner = t <=> pc[t] \in InTile
           /\ pc[t] \in Locked \ InTile => Owner = NoThread
BY TransportAssumption DEF FrameInv, Exclusive, Owner, InTile, Locked

LEMMA OwnerMoves ==
    ASSUME FrameInv, NEW t \in Threads, NEW l,
           pc' = [pc EXCEPT ![t] = l], UNCHANGED lock,
           l \in InTile => pc[t] \in Locked
    PROVE  Owner' = IF l \in InTile THEN t ELSE IF Owner = t THEN NoThread ELSE Owner
BY TransportAssumption DEF FrameInv, Shape, Exclusive, Owner, InTile, Locked

\* A thread passes from label to label of its call.
LEMMA Passes ==
    ASSUME FrameInv, NEW t \in Threads, NEW l, Goto(t, l), UNCHANGED lock,
           l \in InTile <=> pc[t] \in InTile
    PROVE  Quiet
<1>1. Owner' = Owner
  BY OwnerMoves, OwnerRuns DEF Goto, Locked, InTile
<1> QED BY <1>1 DEF Goto, Quiet, Outcome

\* A thread is given its outcome.
LEMMA Decides ==
    ASSUME TransportInv, NEW t \in Threads, NEW l, NEW code \in Codes \ {"none"},
           Ret(t, l, code), ret[t] = "none", l \notin InTile, UNCHANGED lock
    PROVE  /\ Outcome[t] = "none" /\ UNCHANGED <<req, got>>
           /\ Outcome' = [Outcome EXCEPT ![t] = IF code = "ok" THEN "ok" ELSE "failed"]
           /\ Owner' = IF Owner = t THEN NoThread ELSE Owner
<1>1. Owner' = IF Owner = t THEN NoThread ELSE Owner
  BY OwnerMoves DEF Ret, TransportInv
<1>2. Outcome' = [Outcome EXCEPT ![t] = IF code = "ok" THEN "ok" ELSE "failed"]
  BY DEF Ret, Outcome, TransportInv, CallInv
<1> QED BY <1>1, <1>2 DEF Ret, Outcome

LEMMA Fails ==
    ASSUME TransportInv, NEW t \in Threads, NEW l, NEW code \in Codes \ {"none", "ok"},
           Ret(t, l, code), pc[t] \in {"write"} \cup InWrite \cup InRead, pc[t] # "discard",
           l \notin InTile, UNCHANGED lock
    PROVE  Aborts(t)
<1>1. ret[t] = "none" /\ req[t] # NoCall
  BY DEF TransportInv, ReplyInv, CallInv, InWrite, InRead, Frame, Sized, Writes, Reads, NoCall
<1> QED BY <1>1, Decides DEF Aborts

LEMMA ReplyPasses ==
    ASSUME TransportInv, NEW t \in Threads, NEW l, Goto(t, l), UNCHANGED txbuf,
           pc[t] \notin {"user", "unlock", "return", "discard"},
           l \notin {"user", "unlock", "return", "discard"}, l \in Frame => pc[t] \in Frame
    PROVE  ReplyInv'
BY DEF TransportInv, FrameInv, Shape, ReplyInv, Goto

LEMMA ReplyDecides ==
    ASSUME TransportInv, NEW t \in Threads, NEW l, NEW code \in Codes \ {"none"},
           Ret(t, l, code), UNCHANGED txbuf,
           \/ l \in {"unlock", "return"}
           \/ l = "discard" /\ code # "ok" /\ pc[t] \in Frame
    PROVE  ReplyInv'
BY DEF TransportInv, FrameInv, Shape, CallInv, ReplyInv, Ret, Frame

LEMMA KeepsReply ==
    ASSUME TransportInv, UNCHANGED <<threadVars, txbuf, lock>> PROVE ReplyInv' /\ Quiet
BY DEF TransportInv, ReplyInv, threadVars, Quiet, Outcome, Owner

LEMMA CallEffect ==
    ASSUME TransportInv, NEW t \in Threads, NEW r, NEW l \in {"write", "read_lock", "store"},
           Call(t, r, l)
    PROVE  ReplyInv' /\ Enters(t, r)
<1>1. ReplyInv'
  BY DEF TransportInv, FrameInv, Shape, ReplyInv, Call, At, Frame
<1>2. Owner' = Owner
  BY OwnerMoves, OwnerRuns DEF TransportInv, Call, At, Locked, InTile, Frame
<1> QED BY <1>1, <1>2 DEF TransportInv, ReplyInv, Call, At, Enters, Outcome

LEMMA InterruptEffect ==
    ASSUME TransportInv, NEW t \in Threads, NEW l \in {"write_lock", "read_lock"}, Interrupt(t, l)
    PROVE  ReplyInv' /\ Aborts(t)
BY Fails, ReplyDecides DEF Interrupt, Refuse, At, Codes, InWrite, InRead, InTile, Frame

LEMMA AcquireEffect ==
    ASSUME TransportInv, NEW t \in Threads, NEW from, NEW to,
           from \notin {"user", "unlock", "return", "discard"},
           to \in {"copy_in", "result", "store_reg"}, Acquire(t, from, to)
    PROVE  ReplyInv' /\ Quiet
<1>1. ReplyInv'
  BY ReplyPasses DEF Acquire, At, Frame
<1>2. Owner' = Owner
  BY DEF TransportInv, FrameInv, Shape, Acquire, Goto, At, Owner, InTile, Frame
<1> QED BY <1>1, <1>2 DEF Acquire, Goto, Quiet, Outcome

LEMMA WriteEffect ==
    ASSUME TransportInv, NEW t \in Threads, accel_write(t)
    PROVE  ReplyInv' /\ (Quiet \/ Aborts(t))
<1>1. CASE Goto(t, "write_lock")
  BY <1>1, Passes, ReplyPasses DEF TransportInv, accel_write, At, InTile, Frame
<1>2. CASE Refuse(t, "EINVAL") \/ Refuse(t, "EMSGSIZE")
  BY <1>2, Fails, ReplyDecides DEF accel_write, Refuse, At, Codes, InTile, Frame
<1> QED BY <1>1, <1>2 DEF accel_write

LEMMA CopyEffect ==
    ASSUME TransportInv, NEW t \in Threads, CopyFromUser(t)
    PROVE  /\ ReplyInv'
           /\ \/ Begins(t) /\ received' = 0
              \/ Aborts(t) /\ UNCHANGED received
<1>0. pc[t] = "copy_in" /\ lock = t /\ \A u \in Threads : pc[u] \in Locked => u = t
  BY DEF CopyFromUser, At, TransportInv, FrameInv, Exclusive, Locked, Frame
<1>1. CASE Goto(t, "accept") /\ txbuf' = req[t].tile /\ received' = 0
  <2>1. Sized(req[t]) /\ ret[t] = "none"
    BY <1>0 DEF TransportInv, ReplyInv, CallInv, InWrite, Frame
  <2>2. Owner = NoThread /\ Owner' = t
    <3>1. "accept" \in InTile /\ pc[t] \in Locked \ InTile
      BY <1>0 DEF Locked, InTile, Frame
    <3> QED BY <1>1, <3>1, OwnerRuns, OwnerMoves DEF TransportInv, CopyFromUser, Goto
  <2>3. Begins(t)
    BY <1>1, <2>1, <2>2 DEF Begins, Sized, Outcome, Goto
  <2>4. ReplyInv'
    BY <1>0, <1>1, <2>1 DEF TransportInv, FrameInv, Shape, ReplyInv, Goto, Locked
  <2> QED BY <1>1, <2>3, <2>4
<1>2. CASE Leave(t, "EFAULT") /\ UNCHANGED received
  <2>1. Aborts(t)
    BY <1>0, <1>2, Fails DEF CopyFromUser, Leave, Codes, InWrite, InTile, Frame
  <2>2. ReplyInv'
    BY <1>0, <1>2 DEF TransportInv, FrameInv, Shape, CallInv, ReplyInv, Leave, Ret, Locked, Frame
  <2> QED BY <1>2, <2>1, <2>2
<1> QED BY <1>1, <1>2 DEF CopyFromUser

LEMMA ReturnEffect ==
    ASSUME TransportInv, NEW t \in Threads, Unlock(t) \/ Return(t)
    PROVE  ReplyInv' /\ Returns(t)
<1>1. pc[t] \in {"unlock", "return"} /\ ret[t] # "none" /\ ToUser(t)
  BY DEF Unlock, Return, At, TransportInv, ReplyInv
<1>2. Owner' = Owner
  <2>1. CASE Unlock(t)
    BY <1>1, <2>1, OwnerRuns DEF TransportInv, Unlock, At, Owner, Locked, InTile, Frame
  <2>2. CASE Return(t)
    <3>1. "user" \notin InTile /\ pc[t] \notin InTile
      BY <1>1 DEF InTile, Frame
    <3> QED BY <1>1, <2>2, <3>1, OwnerRuns, OwnerMoves DEF TransportInv, Return, ToUser
  <2> QED BY <2>1, <2>2
<1>3. Outcome' = [Outcome EXCEPT ![t] = "none"] /\ Outcome[t] # "none"
  BY <1>1 DEF ToUser, Outcome, TransportInv, CallInv
<1>4. ReplyInv'
  BY <1>1 DEF Unlock, Return, ToUser, TransportInv, FrameInv, Shape, CallInv, ReplyInv, Frame
<1> QED BY <1>1, <1>2, <1>3, <1>4 DEF ToUser, Returns

LEMMA AcceptEffect ==
    ASSUME TransportInv, NEW t \in Threads, NEW busy, Accept(t, busy)
    PROVE  ReplyInv' /\ (Quiet \/ Aborts(t))
<1>1. CASE Goto(t, "rx_prep") \/ Goto(t, "tx_prep")
  BY <1>1, Passes, ReplyPasses DEF TransportInv, Accept, At, InTile, Frame
<1>2. CASE Leave(t, "EBUSY")
  BY <1>2, Fails, ReplyDecides DEF Accept, Leave, At, Codes, InWrite, InTile, Frame
<1> QED BY <1>1, <1>2 DEF Accept

LEMMA StartEffect ==
    ASSUME TransportInv, NEW t \in Threads, Start(t) PROVE ReplyInv' /\ Quiet
BY Passes, ReplyPasses DEF TransportInv, Start, At, InTile, Frame

LEMMA TileEffect ==
    ASSUME TransportInv, NEW t \in Threads, TileStep(t)
    PROVE  ReplyInv' /\ (Quiet \/ Aborts(t))
<1>1. CASE PrepRx(t)
  BY <1>1, Passes, ReplyPasses, Fails, ReplyDecides
     DEF TransportInv, PrepRx, Leave, At, Codes, InWrite, InTile, Frame
<1>2. CASE PrepTx(t)
  BY <1>2, Passes, ReplyPasses, Fails, ReplyDecides
     DEF TransportInv, PrepTx, Fail, At, Codes, InWrite, InTile, Frame
<1>3. CASE SubmitRx(t)
  BY <1>3, Passes, ReplyPasses, Fails, ReplyDecides
     DEF TransportInv, SubmitRx, Fail, At, Codes, InWrite, InTile, Frame
<1>4. CASE SubmitTx(t)
  BY <1>4, Passes, ReplyPasses, Fails, ReplyDecides
     DEF TransportInv, SubmitTx, Fail, At, Codes, InWrite, InTile, Frame
<1>5. CASE IssueRx(t) \/ IssueTx(t)
  BY <1>5, Passes, ReplyPasses DEF TransportInv, IssueRx, IssueTx, At, InTile, Frame
<1>6. CASE WaitTx(t)
  BY <1>6, Passes, ReplyPasses, Fails, ReplyDecides
     DEF TransportInv, WaitTx, Fail, At, Codes, InWrite, InTile, Frame
<1>7. CASE WaitRx(t)
  BY <1>7, Passes, ReplyPasses, Fails, ReplyDecides
     DEF TransportInv, WaitRx, Leave, At, Codes, InWrite, InTile, Frame
<1>8. CASE Discard(t)
  <2>1. pc[t] = "discard" /\ ret[t] \in Codes \ {"none", "ok"} /\ Ret(t, "unlock", ret[t])
    BY <1>8 DEF Discard, Leave, At, TransportInv, CallInv, ReplyInv
  <2>2. Owner' = Owner
    <3>1. "unlock" \notin InTile /\ pc[t] \in Locked \ InTile
      BY <2>1 DEF Locked, InTile, Frame
    <3> QED BY <1>8, <2>1, <3>1, OwnerRuns, OwnerMoves DEF TransportInv, Discard, Ret
  <2>3. Quiet
    BY <2>1, <2>2 DEF Ret, Quiet, Outcome, TransportInv, CallInv
  <2>4. ReplyInv'
    BY <1>8, <2>1, ReplyDecides DEF Discard
  <2> QED BY <2>3, <2>4
<1> QED BY <1>1, <1>2, <1>3, <1>4, <1>5, <1>6, <1>7, <1>8 DEF TileStep

LEMMA PollEffect ==
    ASSUME TransportInv, NEW t \in Threads, NEW done, Poll(t, done, "finish")
    PROVE  ReplyInv' /\ (Quiet \/ Aborts(t))
BY Passes, ReplyPasses, Fails, ReplyDecides
   DEF TransportInv, Poll, Leave, At, Codes, InWrite, InTile, Frame

LEMMA PublishEffect ==
    ASSUME TransportInv, NEW t \in Threads, At(t, "finish") \/ At(t, "skip"), Publish(t)
    PROVE  ReplyInv' /\ Commits(t)
<1>1. pc[t] \in InTile /\ ret[t] = "none" /\ Ret(t, "unlock", "ok") /\ UNCHANGED <<lock, txbuf>>
  BY DEF At, Publish, Leave, InTile, Frame, TransportInv, ReplyInv
<1>2. Owner = t
  BY <1>1, OwnerRuns DEF TransportInv
<1> QED BY <1>1, <1>2, Decides, ReplyDecides DEF Commits, Codes, InTile, Frame

LEMMA RejectEffect ==
    ASSUME TransportInv, NEW t \in Threads, At(t, "finish"), Reject(t, "EIO")
    PROVE  ReplyInv' /\ Aborts(t)
BY Fails, ReplyDecides DEF Reject, Leave, At, Codes, InWrite, InTile, Frame

LEMMA ResultEffect ==
    ASSUME TransportInv, NEW t \in Threads, NEW bytes, NEW value, Result(t, bytes, value)
    PROVE  /\ ReplyInv'
           /\ \/ Aborts(t)
              \/ Answers(t) /\ got' = [got EXCEPT ![t] = value] /\ req[t] \in Reads
<1>0. pc[t] = "result" /\ ret[t] = "none" /\ req[t] \in Reads /\ UNCHANGED <<lock, txbuf>>
  BY DEF Result, At, TransportInv, ReplyInv, CallInv, InRead
<1>1. CASE Leave(t, "EINVAL") \/ Leave(t, "EFAULT")
  BY <1>0, <1>1, Fails, ReplyDecides DEF Leave, Codes, InRead, InTile, Frame
<1>2. CASE /\ pc' = [pc EXCEPT ![t] = "unlock"] /\ ret' = [ret EXCEPT ![t] = "ok"]
           /\ got' = [got EXCEPT ![t] = value] /\ UNCHANGED req
  <2>1. Owner = NoThread /\ Owner' = Owner
    BY <1>0, <1>2, OwnerRuns, OwnerMoves DEF TransportInv, Locked, InTile, Frame
  <2>2. Outcome[t] = "none" /\ Outcome' = [Outcome EXCEPT ![t] = "ok"]
    BY <1>0, <1>2 DEF Outcome, TransportInv, CallInv
  <2>3. ReplyInv'
    BY <1>0, <1>2 DEF TransportInv, FrameInv, Shape, CallInv, ReplyInv, Frame
  <2> QED BY <1>0, <1>2, <2>1, <2>2, <2>3 DEF Answers
<1> QED BY <1>1, <1>2 DEF Result

LEMMA InitReply ==
    ASSUME TransportInit PROVE ReplyInv
BY DEF TransportInit, ReplyInv, Frame
=============================================================================
