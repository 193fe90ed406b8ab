--------------------------- MODULE AccelTransport ---------------------------
(***************************************************************************)
(* driver/accel_transport.c: the write() and read() of an accelerator's    *)
(* character device, and the two DMA channels they drive.  Each step of    *)
(* accel_run_tile that calls out of the driver is an action; threads,      *)
(* channels and accelerator interleave between any two of them.            *)
(*                                                                         *)
(* What belongs to one accelerator is left to the register layer that      *)
(* extends this module: accept, start, finish and result, and the stream   *)
(* on the far side of the channels.  The dmaengine, the mutex and the      *)
(* completions are the kernel's, modelled from how this file uses them.    *)
(***************************************************************************)
EXTENDS Integers, FiniteSets

CONSTANTS Threads,     \* the processes that have the device open
          Tiles,       \* contents a tile may have
          MAX_BEATS,   \* ACCEL_MAX_BEATS
          BEAT_BYTES,  \* accel_ops.beat_bytes
          DUPLEX,      \* accel_ops.duplex: results come back on a stream
          ReadCounts,  \* sizes of the buffers that are read into
          NoResult,    \* nothing has been read yet
          NoThread     \* nobody: the mutex is free, a channel has no callback

ASSUME TransportAssumption ==
    /\ NoThread \notin Threads
    /\ MAX_BEATS \in Nat \ {0} /\ BEAT_BYTES \in Nat \ {0}
    /\ DUPLEX \in BOOLEAN /\ ReadCounts \subseteq Nat

VARIABLES
    pc,              \* where each thread is; "user" outside the driver
    req,             \* the system call each thread is in
    ret,             \* the return value of that call, "none" until it is known
    got,             \* what that call has copied out to its thread
    lock,            \* ac->lock
    received,        \* ac->received
    txbuf,           \* the tile in the coherent transmit buffer
    tx, rx,          \* the two channels: their descriptor, and whom it calls back
    sent, returned   \* the completions on accel_run_tile's stack

threadVars == <<pc, req, ret, got>>
chanVars   == <<tx, rx, sent, returned>>
transportVars == <<threadVars, lock, received, txbuf, chanVars>>

\* A write of some bytes of a tile; a read into a buffer of some size.
Writes == [op : {"write"}, tile : Tiles, bytes : 0 .. (MAX_BEATS + 1) * BEAT_BYTES]
Reads  == [op : {"read"}, count : ReadCounts]
NoCall == [op |-> "none"]

beats(r) == r.bytes \div BEAT_BYTES

\* A descriptor is prepared, submitted, issued, then moves pos beats until it is
\* moved; its callback runs some time after that.
DescStates == {"none", "prepared", "submitted", "issued", "moved"}
NoDesc == [st |-> "none", pos |-> 0, frame |-> NoThread]
Channel == [st : DescStates, pos : 0 .. MAX_BEATS, frame : Threads \cup {NoThread}]

\* The channel may still call back into the frame that submitted it.
Armed(chan) == chan.st \in {"submitted", "issued", "moved"}

-----------------------------------------------------------------------------
(* How a thread moves through the code                                     *)

At(t, label)   == pc[t] = label
Goto(t, label) == pc' = [pc EXCEPT ![t] = label] /\ UNCHANGED <<req, ret, got>>

\* On to the given label with the value the call will return.
Ret(t, label, code) == /\ pc' = [pc EXCEPT ![t] = label]
                       /\ ret' = [ret EXCEPT ![t] = code]
                       /\ UNCHANGED <<req, got>>

\* Out of the locked region; out through discard, a return transfer perhaps
\* being queued; out of the call, the lock not taken.
Leave(t, code)  == Ret(t, "unlock", code)
Fail(t, code)   == Ret(t, "discard", code)
Refuse(t, code) == Ret(t, "return", code)

\* A thread in user mode makes a call, and later is back.
Call(t, r, label) == /\ At(t, "user")
                     /\ pc' = [pc EXCEPT ![t] = label]
                     /\ req' = [req EXCEPT ![t] = r]
                     /\ UNCHANGED <<ret, got, lock, received, txbuf, chanVars>>
ToUser(t) == /\ pc' = [pc EXCEPT ![t] = "user"]
             /\ req' = [req EXCEPT ![t] = NoCall]
             /\ ret' = [ret EXCEPT ![t] = "none"]
             /\ got' = [got EXCEPT ![t] = NoResult]

\* mutex_lock, and the signal that interrupts mutex_lock_interruptible.
Acquire(t, from, to) == /\ At(t, from) /\ lock = NoThread
                        /\ lock' = t /\ Goto(t, to)
                        /\ UNCHANGED <<received, txbuf, chanVars>>
Interrupt(t, from) == /\ At(t, from) /\ Refuse(t, "ERESTARTSYS")
                      /\ UNCHANGED <<lock, received, txbuf, chanVars>>
Unlock(t) == /\ At(t, "unlock") /\ lock' = NoThread /\ ToUser(t)
             /\ UNCHANGED <<received, txbuf, chanVars>>
Return(t) == /\ At(t, "return") /\ ToUser(t)
             /\ UNCHANGED <<lock, received, txbuf, chanVars>>

-----------------------------------------------------------------------------
(* write()                                                                 *)

\* Mutant: a tile longer than the buffer is not refused.
accel_writeUnbounded(t) ==
    /\ At(t, "write")
    /\ IF req[t].bytes = 0 \/ req[t].bytes % BEAT_BYTES # 0
       THEN Refuse(t, "EINVAL") ELSE Goto(t, "write_lock")
    /\ UNCHANGED <<lock, received, txbuf, chanVars>>

accel_write(t) ==
    LET bytes == req[t].bytes IN
    /\ At(t, "write")
    /\ \/ /\ bytes = 0 \/ bytes % BEAT_BYTES # 0
          /\ Refuse(t, "EINVAL")
       \/ /\ bytes # 0 /\ bytes % BEAT_BYTES = 0 /\ bytes > MAX_BEATS * BEAT_BYTES
          /\ Refuse(t, "EMSGSIZE")
       \/ /\ bytes # 0 /\ bytes % BEAT_BYTES = 0 /\ bytes <= MAX_BEATS * BEAT_BYTES
          /\ Goto(t, "write_lock")
    /\ UNCHANGED <<lock, received, txbuf, chanVars>>

\* copy_from_user may fault having overwritten part of the buffer.  On entry
\* accel_run_tile forgets the last results and declares its completions.
CopyFromUser(t) ==
    /\ At(t, "copy_in")
    /\ \/ /\ txbuf' = req[t].tile
          /\ received' = 0 /\ sent' = FALSE /\ returned' = FALSE
          /\ Goto(t, "accept")
       \/ /\ txbuf' \in {txbuf, req[t].tile}
          /\ UNCHANGED <<received, sent, returned>>
          /\ Leave(t, "EFAULT")
    /\ UNCHANGED <<lock, tx, rx>>

-----------------------------------------------------------------------------
(* accel_run_tile, up to the register layer's start                        *)

\* ops->accept: may a tile start now?
Accept(t, busy) ==
    /\ At(t, "accept")
    /\ IF busy THEN Leave(t, "EBUSY")
       ELSE Goto(t, IF DUPLEX THEN "rx_prep" ELSE "tx_prep")
    /\ UNCHANGED <<lock, received, txbuf, chanVars>>

Prepared(t) == [st |-> "prepared", pos |-> 0, frame |-> t]

PrepRx(t) ==
    /\ At(t, "rx_prep")
    /\ \/ rx' = Prepared(t) /\ Goto(t, "tx_prep")
       \/ Leave(t, "EIO") /\ UNCHANGED rx
    /\ UNCHANGED <<lock, received, txbuf, tx, sent, returned>>

PrepTx(t) ==
    /\ At(t, "tx_prep")
    /\ \/ tx' = Prepared(t) /\ Goto(t, IF DUPLEX THEN "rx_submit" ELSE "tx_submit")
       \/ Fail(t, "EIO") /\ UNCHANGED tx
    /\ UNCHANGED <<lock, received, txbuf, rx, sent, returned>>

SubmitRx(t) ==
    /\ At(t, "rx_submit")
    /\ \/ rx' = [rx EXCEPT !.st = "submitted"] /\ Goto(t, "tx_submit")
       \/ Fail(t, "ESUBMIT") /\ UNCHANGED rx
    /\ UNCHANGED <<lock, received, txbuf, tx, sent, returned>>

SubmitTx(t) ==
    /\ At(t, "tx_submit")
    /\ \/ tx' = [tx EXCEPT !.st = "submitted"] /\ Goto(t, "start")
       \/ Fail(t, "ESUBMIT") /\ UNCHANGED tx
    /\ UNCHANGED <<lock, received, txbuf, rx, sent, returned>>

\* ops->start: the register layer says what the accelerator does.
Start(t) == /\ At(t, "start")
            /\ Goto(t, IF DUPLEX THEN "rx_issue" ELSE "tx_issue")
            /\ UNCHANGED <<lock, received, txbuf, chanVars>>

-----------------------------------------------------------------------------
(* The transfers                                                           *)

Issued(chan) == IF chan.st = "submitted" THEN [chan EXCEPT !.st = "issued"] ELSE chan

IssueRx(t) == /\ At(t, "rx_issue") /\ rx' = Issued(rx) /\ Goto(t, "tx_issue")
              /\ UNCHANGED <<lock, received, txbuf, tx, sent, returned>>
IssueTx(t) == /\ At(t, "tx_issue") /\ tx' = Issued(tx) /\ Goto(t, "wait_tx")
              /\ UNCHANGED <<lock, received, txbuf, rx, sent, returned>>

\* Mutants: the wait has no timeout; the return transfer is not waited for.
WaitTxForever(t) ==
    /\ At(t, "wait_tx")
    /\ sent /\ Goto(t, IF DUPLEX THEN "wait_rx" ELSE "poll")
    /\ UNCHANGED <<lock, received, txbuf, chanVars>>

WaitTxOnly(t) ==
    /\ At(t, "wait_tx")
    /\ \/ sent /\ Goto(t, "poll") /\ UNCHANGED tx
       \/ ~sent /\ tx' = NoDesc /\ Fail(t, "ETIMEDOUT")
    /\ UNCHANGED <<lock, received, txbuf, rx, sent, returned>>

\* accel_wait: the completion, or a timeout that terminates the channel.  A
\* completion signalled before the wait looks at it is never a timeout.
WaitTx(t) ==
    /\ At(t, "wait_tx")
    /\ \/ sent /\ Goto(t, IF DUPLEX THEN "wait_rx" ELSE "poll") /\ UNCHANGED tx
       \/ ~sent /\ tx' = NoDesc /\ Fail(t, "ETIMEDOUT")
    /\ UNCHANGED <<lock, received, txbuf, rx, sent, returned>>

WaitRx(t) ==
    /\ At(t, "wait_rx")
    /\ \/ returned /\ Goto(t, "poll") /\ UNCHANGED rx
       \/ ~returned /\ rx' = NoDesc /\ Leave(t, "ETIMEDOUT")
    /\ UNCHANGED <<lock, received, txbuf, tx, sent, returned>>

\* readl_poll_timeout of STATUS.DONE, at the top of both layers' finish.
Poll(t, done, next) ==
    /\ At(t, "poll")
    /\ \/ done /\ Goto(t, next)
       \/ ~done /\ Leave(t, "ETIMEDOUT")
    /\ UNCHANGED <<lock, received, txbuf, chanVars>>

\* finish has agreed: the results are published and the tile is over.
Publish(t) == /\ received' = IF DUPLEX THEN req[t].bytes ELSE received
              /\ Leave(t, "ok")
              /\ UNCHANGED <<lock, txbuf, chanVars>>
\* finish has not.
Reject(t, code) == Leave(t, code) /\ UNCHANGED <<lock, received, txbuf, chanVars>>

\* Mutant: a queued return transfer is left on its channel.
DiscardKeepsRx(t) ==
    /\ At(t, "discard")
    /\ Leave(t, ret[t])
    /\ UNCHANGED <<lock, received, txbuf, chanVars>>

Discard(t) ==
    /\ At(t, "discard")
    /\ rx' = IF DUPLEX THEN NoDesc ELSE rx
    /\ Leave(t, ret[t])
    /\ UNCHANGED <<lock, received, txbuf, tx, sent, returned>>

\* Where accel_run_tile's frame is on the stack of a thread.
Frame == {"accept", "rx_prep", "tx_prep", "rx_submit", "tx_submit", "start",
          "rx_issue", "tx_issue", "wait_tx", "wait_rx", "poll", "finish", "skip", "discard"}

-----------------------------------------------------------------------------
(* The dmaengine: beats move only on an issued channel, and the callback   *)
(* of a transfer that has moved runs later, unless it is terminated first. *)

\* The next beat of the outgoing transfer, and whether it carries tlast.
HasBeat     == tx.st = "issued"
TxLast      == tx.pos + 1 = beats(req[tx.frame])
BeatSent    == tx' = [tx EXCEPT !.pos = @ + 1,
                                !.st = IF TxLast THEN "moved" ELSE "issued"]

\* The return transfer ends on a tlast, or when the buffer it was given is full.
HasRoom            == rx.st = "issued"
BeatReturned(last) ==
    rx' = [rx EXCEPT !.pos = @ + 1,
                     !.st = IF last \/ rx.pos + 1 = beats(req[rx.frame])
                            THEN "moved" ELSE "issued"]

TxDone == /\ tx.st = "moved" /\ tx' = NoDesc /\ sent' = TRUE
          /\ UNCHANGED <<threadVars, lock, received, txbuf, rx, returned>>
RxDone == /\ rx.st = "moved" /\ rx' = NoDesc /\ returned' = TRUE
          /\ UNCHANGED <<threadVars, lock, received, txbuf, tx, sent>>

-----------------------------------------------------------------------------
(* accel_read: the register layer's result decides how much there is.      *)

\* ops->result: too small a buffer, a fault, or the copy; none for no bytes.
Result(t, bytes, value) ==
    /\ At(t, "result")
    /\ \/ bytes > 0 /\ req[t].count < bytes /\ Leave(t, "EINVAL")
       \/ bytes > 0 /\ req[t].count >= bytes /\ Leave(t, "EFAULT")
       \/ /\ bytes = 0 \/ req[t].count >= bytes
          /\ pc' = [pc EXCEPT ![t] = "unlock"]
          /\ ret' = [ret EXCEPT ![t] = "ok"]
          /\ got' = [got EXCEPT ![t] = value]
          /\ UNCHANGED req
    /\ UNCHANGED <<lock, received, txbuf, chanVars>>

-----------------------------------------------------------------------------
TransportInit ==
    /\ pc = [t \in Threads |-> "user"]
    /\ req = [t \in Threads |-> NoCall]
    /\ ret = [t \in Threads |-> "none"]
    /\ got = [t \in Threads |-> NoResult]
    /\ lock = NoThread /\ received = 0
    /\ txbuf \in Tiles
    /\ tx = NoDesc /\ rx = NoDesc
    /\ sent = FALSE /\ returned = FALSE

\* Every step of accel_run_tile that needs no register layer.
TileStep(t) ==
    \/ PrepRx(t) \/ PrepTx(t) \/ SubmitRx(t) \/ SubmitTx(t)
    \/ IssueRx(t) \/ IssueTx(t) \/ WaitTx(t) \/ WaitRx(t) \/ Discard(t)

\* The steps of a call around accel_run_tile and result.
CallStep(t) ==
    \/ Acquire(t, "write_lock", "copy_in") \/ Acquire(t, "read_lock", "result")
    \/ accel_write(t) \/ CopyFromUser(t) \/ Unlock(t) \/ Return(t)

\* A signal reaches a process that waits for the lock.
Signal(t) == Interrupt(t, "write_lock") \/ Interrupt(t, "read_lock")

\* The calls a process may make on the character device.
FileCall(t) == \/ \E r \in Writes : Call(t, r, "write")
               \/ \E r \in Reads : Call(t, r, "read_lock")

-----------------------------------------------------------------------------
(* What TileDevice sees of the transport                                   *)

Outcome == [t \in Threads |-> IF ret[t] \in {"none", "ok"} THEN ret[t] ELSE "failed"]

\* Labels from which a tile may still commit, and the thread that is at one.
InTile == Frame \ {"discard"}
Owner == IF lock # NoThread /\ pc[lock] \in InTile THEN lock ELSE NoThread

-----------------------------------------------------------------------------
(* Properties                                                              *)

Codes == {"none", "ok", "EINVAL", "EMSGSIZE", "ERESTARTSYS", "EFAULT", "EBUSY",
          "EIO", "ESUBMIT", "ETIMEDOUT", "ERANGE"}

TransportTypeOK ==
    /\ pc \in [Threads -> Frame \cup {"user", "write", "write_lock", "copy_in", "unlock", "return",
                                      "read_lock", "result", "store", "store_lock", "store_reg"}]
    /\ ret \in [Threads -> Codes]
    /\ lock \in Threads \cup {NoThread}
    /\ received \in 0 .. MAX_BEATS * BEAT_BYTES
    /\ txbuf \in Tiles
    /\ tx \in Channel /\ rx \in Channel
    /\ sent \in BOOLEAN /\ returned \in BOOLEAN

\* No callback outlives the stack frame its completion is on (121-122, 190-221):
\* a channel that may still call back belongs to a thread inside accel_run_tile,
\* and that thread holds the lock.  Every exit, early, failed or timed out, has
\* terminated or consumed what it submitted.
NoDeadCallback ==
    \A chan \in {tx, rx} : Armed(chan) =>
        pc[chan.frame] \in Frame /\ lock = chan.frame
=============================================================================
