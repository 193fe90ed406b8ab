----------------------------- MODULE AccelProbe -----------------------------
(***************************************************************************)
(* Binding and unbinding: accel_probe of driver/accel_transport.c, the     *)
(* probes of sparse_cnn.c and relu.c around it, and the managed resources  *)
(* the driver core releases when a probe fails or the device is unbound.   *)
(* Processes use the device node and the slope attribute while they exist. *)
(***************************************************************************)
EXTENDS Naturals, Sequences, SequencesExt

CONSTANTS Layers,     \* register layers, as RegisterLayer records
          Designs,    \* values an ID register reads
          Processes   \* user processes

\* What of a layer its probe depends on: the ID it expects, whether it needs the
\* return path, whether it allocates state of its own first, whether it adds
\* an attribute group last.
RegisterLayer == [id : Designs, duplex : BOOLEAN, priv : BOOLEAN, group : BOOLEAN]

ASSUME LayerRecords == Layers \subseteq RegisterLayer

Resources == {"priv", "ac", "regs", "tx_chan", "tx_buf", "rx_chan", "rx_buf",
              "node", "slope"}

VARIABLES
    layer, design,  \* the driver being bound, and what the ID register reads
    pc,             \* the probe's next step; idle, bound; or unwinding
    dir,            \* the stream accel_claim_stream is claiming
    devres,         \* the device's managed resources, newest last
    drvdata,        \* the device's driver data is set
    taken,          \* what is really held, in the order it was taken
    user            \* what each process is in the middle of

vars == <<layer, design, pc, dir, devres, drvdata, taken, user>>

ProbeSteps == {"priv", "ac", "regs", "id", "chan", "chan_action", "buf", "buf_action",
               "node", "node_action", "group"}

chan == IF dir = "tx" THEN "tx_chan" ELSE "rx_chan"
buf  == IF dir = "tx" THEN "tx_buf" ELSE "rx_buf"

Holds(r) == \E i \in DOMAIN taken : taken[i] = r

\* Deregistering the node waits for nobody who has it open.
Strand(r) == user' = [p \in Processes |->
                        IF r = "node" /\ user[p] = "file" THEN "stranded" ELSE user[p]]

-----------------------------------------------------------------------------
(* Kinds of step                                                           *)

Goto(label) == pc' = label /\ UNCHANGED <<layer, design>>

\* An error return: the driver core releases what the device manages.
Fail == Goto("unwind") /\ UNCHANGED <<dir, devres, taken, user>>

\* A devm_ allocation: taken and managed at once.
Managed(r) == /\ taken' = Append(taken, r)
              /\ devres' = Append(devres, r)
              /\ UNCHANGED <<dir, user>>

\* A plain acquisition: taken, and managed only by the next step.
Taken(r) == taken' = Append(taken, r) /\ UNCHANGED <<dir, devres, user>>

\* devm_add_action_or_reset: managed, or released on the spot.
AddAction(r, next) ==
    \/ Goto(next) /\ devres' = Append(devres, r) /\ UNCHANGED <<taken, user>>
    \/ /\ Goto("unwind")
       /\ taken' = RemoveFirst(taken, r)
       /\ Strand(r) /\ UNCHANGED devres

-----------------------------------------------------------------------------
(* The probe                                                               *)

\* The driver core finds a device for a driver and calls its probe: again, too,
\* after a probe that was deferred.
Bind(l, d) == /\ pc = "idle"
              /\ pc' = IF l.priv THEN "priv" ELSE "ac"
              /\ layer' = l /\ design' = d /\ dir' = "tx"
              /\ UNCHANGED <<devres, drvdata, taken, user>>

\* sparse_cnn_probe's own allocation.
AllocPriv == /\ pc = "priv"
             /\ (Goto("ac") /\ Managed("priv")) \/ Fail
             /\ UNCHANGED drvdata

\* Mutant: the driver data is never set.
AllocAcNoDrvdata == /\ pc = "ac"
                    /\ (Goto("regs") /\ Managed("ac")) \/ Fail
                    /\ UNCHANGED drvdata

AllocAc == /\ pc = "ac"
           /\ \/ Goto("regs") /\ Managed("ac") /\ drvdata' = TRUE
              \/ Fail /\ UNCHANGED drvdata

MapRegs == /\ pc = "regs"
           /\ (Goto("id") /\ Managed("regs")) \/ Fail
           /\ UNCHANGED drvdata

\* Mutants: any ID will do; the ID is polled until it reads right.
ReadIdUnchecked == pc = "id" /\ Goto("chan") /\ UNCHANGED <<dir, devres, drvdata, taken, user>>
ReadIdPolls == /\ pc = "id"
               /\ Goto(IF design = layer.id THEN "chan" ELSE "id")
               /\ UNCHANGED <<dir, devres, drvdata, taken, user>>

ReadId == /\ pc = "id"
          /\ \/ /\ design = layer.id
                /\ Goto("chan") /\ UNCHANGED <<dir, devres, taken, user>>
             \/ design # layer.id /\ Fail
          /\ UNCHANGED drvdata

\* The channel may be missing, or its provider not there yet.
RequestChan == /\ pc = "chan"
               /\ (Goto("chan_action") /\ Taken(chan)) \/ Fail
               /\ UNCHANGED drvdata

\* Mutant: devm_add_action, without the reset.
ManageChanNoReset == /\ pc = "chan_action"
                     /\ \/ /\ Goto("buf") /\ devres' = Append(devres, chan)
                           /\ UNCHANGED <<dir, taken, user>>
                        \/ Fail
                     /\ UNCHANGED drvdata

ManageChan == /\ pc = "chan_action"
              /\ AddAction(chan, "buf")
              /\ UNCHANGED <<dir, drvdata>>

AllocBuf == /\ pc = "buf"
            /\ (Goto("buf_action") /\ Taken(buf)) \/ Fail
            /\ UNCHANGED drvdata

\* Mutants: the return path is forgotten; the first stream is claimed twice; the
\* buffer's release is registered under the channel's.
ManageBufSimplex == /\ pc = "buf_action"
                    /\ AddAction(buf, "node")
                    /\ UNCHANGED <<dir, drvdata>>
ManageBufAgain == /\ pc = "buf_action"
                  /\ AddAction(buf, IF layer.duplex /\ dir = "tx" THEN "chan" ELSE "node")
                  /\ UNCHANGED <<dir, drvdata>>
ManageBufUnder ==
    /\ pc = "buf_action"
    /\ Goto(IF layer.duplex /\ dir = "tx" THEN "chan" ELSE "node")
    /\ dir' = IF layer.duplex THEN "rx" ELSE "tx"
    /\ devres' = Front(devres) \o <<buf, chan>>
    /\ UNCHANGED <<drvdata, taken, user>>

\* The second stream is claimed only from a duplex accelerator.
ManageBuf == /\ pc = "buf_action"
             /\ AddAction(buf, IF layer.duplex /\ dir = "tx" THEN "chan" ELSE "node")
             /\ dir' = IF pc' = "chan" THEN "rx" ELSE dir
             /\ UNCHANGED drvdata

RegisterNode == /\ pc = "node"
                /\ (Goto("node_action") /\ Taken("node")) \/ Fail
                /\ UNCHANGED drvdata

ManageNode == /\ pc = "node_action"
              /\ AddAction("node", IF layer.group THEN "group" ELSE "bound")
              /\ UNCHANGED <<dir, drvdata>>

\* relu_probe adds its attributes once the accelerator is claimed.
AddGroup == /\ pc = "group"
            /\ (Goto("bound") /\ Managed("slope")) \/ Fail
            /\ UNCHANGED drvdata

-----------------------------------------------------------------------------
(* The driver core                                                         *)

Unbind == /\ pc = "bound"
          /\ Goto("unwind") /\ UNCHANGED <<dir, devres, drvdata, taken, user>>

\* Removing the attributes waits for the processes inside them.
Release == /\ pc = "unwind" /\ devres # <<>>
           /\ Last(devres) = "slope" => \A p \in Processes : user[p] # "attribute"
           /\ devres' = Front(devres)
           /\ taken' = RemoveFirst(taken, Last(devres))
           /\ Strand(Last(devres))
           /\ UNCHANGED <<layer, design, pc, dir, drvdata>>

Unbound == /\ pc = "unwind" /\ devres = <<>>
           /\ Goto("idle") /\ drvdata' = FALSE
           /\ UNCHANGED <<dir, devres, taken, user>>

-----------------------------------------------------------------------------
(* Processes                                                               *)

\* A process opens the node and calls through it until it closes it.
Open(p) == /\ user[p] = "out" /\ Holds("node")
           /\ user' = [user EXCEPT ![p] = "file"]
           /\ UNCHANGED <<layer, design, pc, dir, devres, drvdata, taken>>

\* It reads or writes slope, unless the attributes are being removed.
Enter(p) == /\ user[p] = "out" /\ Holds("slope") /\ pc # "unwind"
            /\ user' = [user EXCEPT ![p] = "attribute"]
            /\ UNCHANGED <<layer, design, pc, dir, devres, drvdata, taken>>

Leave(p) == /\ user[p] # "out"
            /\ user' = [user EXCEPT ![p] = "out"]
            /\ UNCHANGED <<layer, design, pc, dir, devres, drvdata, taken>>

-----------------------------------------------------------------------------
Init == /\ layer \in Layers /\ design \in Designs
        /\ pc = "idle" /\ dir = "tx"
        /\ devres = <<>> /\ drvdata = FALSE /\ taken = <<>>
        /\ user = [p \in Processes |-> "out"]

Probe == \/ AllocPriv \/ AllocAc \/ MapRegs \/ ReadId
         \/ RequestChan \/ ManageChan \/ AllocBuf \/ ManageBuf
         \/ RegisterNode \/ ManageNode \/ AddGroup

Next == \/ \E l \in Layers, d \in Designs : Bind(l, d)
        \/ Probe \/ Unbind \/ Release \/ Unbound
        \/ \E p \in Processes : Open(p) \/ Enter(p) \/ Leave(p)

Spec == Init /\ [][Next]_vars

\* A probe and an unwinding go on; a call into the attribute returns.
FairSpec == /\ Spec
            /\ WF_vars(Probe) /\ WF_vars(Release \/ Unbound)
            /\ \A p \in Processes : WF_vars(user[p] = "attribute" /\ Leave(p))

-----------------------------------------------------------------------------
(* Properties                                                              *)

\* The types; and nothing is taken twice.
TypeOK == /\ layer \in Layers /\ design \in Designs
          /\ pc \in ProbeSteps \cup {"idle", "bound", "unwind"}
          /\ dir \in {"tx", "rx"}
          /\ devres \in Seq(Resources) /\ taken \in Seq(Resources)
          /\ \A i, j \in DOMAIN taken : taken[i] = taken[j] => i = j
          /\ drvdata \in BOOLEAN
          /\ user \in [Processes -> {"out", "file", "stranded", "attribute"}]

\* What a tile on this layer's device touches.
Needs == {"ac", "regs", "tx_chan", "tx_buf"}
         \cup (IF layer.duplex THEN {"rx_chan", "rx_buf"} ELSE {})
         \cup (IF layer.priv THEN {"priv"} ELSE {})

\* From the moment the node exists (379) until it is gone, on every path through
\* probe, failure and removal: everything a tile touches is held, and the design
\* behind it answered with this layer's ID (359).
PublishedIsUsable ==
    (Holds("node") \/ \E p \in Processes : user[p] = "file") =>
        design = layer.id /\ \A r \in Needs : Holds(r)

\* A process inside the slope attribute finds driver data, and behind it the
\* accelerator and its registers (relu.c 137, 145, 188-193).
AttributeReachesDevice ==
    (Holds("slope") \/ \E p \in Processes : user[p] = "attribute") =>
        drvdata /\ Holds("ac") /\ Holds("regs")

\* Between any two steps the managed resources account for everything taken but
\* the one in hand: a probe that fails anywhere has nothing to unwind itself.
NothingLeaks ==
    /\ pc \notin {"chan_action", "buf_action", "node_action"} => taken = devres
    /\ pc = "idle" => taken = <<>> /\ ~drvdata

\* What is released is always what was taken last: a buffer before the channel
\* whose device it was allocated for, the node before the buffers.
ReleasedInReverse == [][ Len(taken') < Len(taken) => taken' = Front(taken) ]_vars

\* Every probe ends bound or with the device released, and so does every removal.
BindingSettles == (pc \notin {"idle", "bound"}) ~> (pc \in {"idle", "bound"})
=============================================================================
