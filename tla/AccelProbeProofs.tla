-------------------------- MODULE AccelProbeProofs --------------------------
(***************************************************************************)
(* What is held at every step of a probe, a failure and a removal, for any *)
(* register layers, designs and processes.                                 *)
(***************************************************************************)
EXTENDS AccelProbe, SequenceTheorems, TLAPS

One(b) == IF b THEN 1 ELSE 0

\* The resources a layer takes, and the place of each in the order taken.
Wanted(l) == {"ac", "regs", "tx_chan", "tx_buf", "node"}
             \cup (IF l.priv THEN {"priv"} ELSE {})
             \cup (IF l.duplex THEN {"rx_chan", "rx_buf"} ELSE {})
             \cup (IF l.group THEN {"slope"} ELSE {})

Rank(l, r) == CASE r = "priv"    -> 1
                [] r = "ac"      -> One(l.priv) + 1
                [] r = "regs"    -> One(l.priv) + 2
                [] r = "tx_chan" -> One(l.priv) + 3
                [] r = "tx_buf"  -> One(l.priv) + 4
                [] r = "rx_chan" -> One(l.priv) + 5
                [] r = "rx_buf"  -> One(l.priv) + 6
                [] r = "node"    -> One(l.priv) + 5 + 2 * One(l.duplex)
                [] r = "slope"   -> One(l.priv) + 6 + 2 * One(l.duplex)

\* How many are taken when the probe is at a step.
Side == IF dir = "rx" THEN 2 ELSE 0
Before(step) == CASE step = "priv"        -> 0
                  [] step = "ac"          -> One(layer.priv)
                  [] step = "regs"        -> One(layer.priv) + 1
                  [] step = "id"          -> One(layer.priv) + 2
                  [] step = "chan"        -> One(layer.priv) + 2 + Side
                  [] step = "chan_action" -> One(layer.priv) + 3 + Side
                  [] step = "buf"         -> One(layer.priv) + 3 + Side
                  [] step = "buf_action"  -> One(layer.priv) + 4 + Side
                  [] step = "node"        -> One(layer.priv) + 4 + 2 * One(layer.duplex)
                  [] step = "node_action" -> One(layer.priv) + 5 + 2 * One(layer.duplex)
                  [] step = "group"       -> One(layer.priv) + 5 + 2 * One(layer.duplex)
                  [] step = "bound"       -> One(layer.priv) + 5 + 2 * One(layer.duplex)
                                             + One(layer.group)
                  [] step = "idle"        -> 0

Actions == {"chan_action", "buf_action", "node_action"}

\* The resource taken and not yet managed.
InHand == CASE pc = "chan_action" -> chan
            [] pc = "buf_action"  -> buf
            [] pc = "node_action" -> "node"

Shape == /\ layer \in Layers /\ design \in Designs
         /\ pc \in ProbeSteps \cup {"idle", "bound", "unwind"}
         /\ dir \in {"tx", "rx"}
         /\ devres \in Seq(Resources) /\ taken \in Seq(Resources)
         /\ drvdata \in BOOLEAN
         /\ user \in [Processes -> {"out", "file", "stranded", "attribute"}]

\* What is held is the beginning of the layer's list, in its order.
ListInv == /\ \A i \in 1 .. Len(taken) : taken[i] \in Wanted(layer) /\ Rank(layer, taken[i]) = i
           /\ \A r \in Wanted(layer) : Rank(layer, r) <= Len(taken) => taken[Rank(layer, r)] = r

\* What the device manages is all of it, but for the one in hand.
ManagedInv == taken = IF pc \in Actions THEN Append(devres, InHand) ELSE devres

\* The probe is where its list says.
PlaceInv == /\ pc # "unwind" => Len(taken) = Before(pc)
            /\ pc = "priv" => layer.priv
            /\ pc = "group" => layer.group
            /\ dir = "rx" /\ pc \in {"chan", "chan_action", "buf", "buf_action"} => layer.duplex
            /\ pc \in {"priv", "ac", "regs", "id"} => dir = "tx"

\* The driver data is set from the moment ac is there, and nothing beyond the
\* registers is taken before the ID has been read.
DataInv == /\ Len(taken) >= Rank(layer, "ac") => drvdata
           /\ Len(taken) > Rank(layer, "regs") => design = layer.id
           /\ pc \in {"chan", "buf", "node"} => design = layer.id
           /\ pc = "idle" => ~drvdata

\* A process is in a file or an attribute only while it exists.
UserInv == /\ \A p \in Processes : user[p] = "file" => Holds("node")
           /\ \A p \in Processes : user[p] = "attribute" => Holds("slope")

ProbeInv == Shape /\ ListInv /\ ManagedInv /\ PlaceInv /\ DataInv /\ UserInv

-----------------------------------------------------------------------------
(* The list                                                                *)

\* No two resources a layer takes have one place.
LEMMA Ranks ==
    ASSUME NEW l \in Layers
    PROVE  /\ Wanted(l) \subseteq Resources
           /\ \A r \in Wanted(l) : Rank(l, r) \in 1 .. 9
           /\ \A q, r \in Wanted(l) : Rank(l, q) = Rank(l, r) => q = r
<1>1. l.priv \in BOOLEAN /\ l.duplex \in BOOLEAN /\ l.group \in BOOLEAN
  BY LayerRecords DEF RegisterLayer
<1>2. Wanted(l) \subseteq Resources
  BY <1>1 DEF Wanted, Resources
<1>3. \A r \in Wanted(l) : Rank(l, r) \in 1 .. 9
  BY <1>1 DEF Wanted, Rank, One
<1>4. \A q, r \in Wanted(l) : Rank(l, q) = Rank(l, r) => q = r
  BY <1>1 DEF Wanted, Rank, One
<1> QED BY <1>2, <1>3, <1>4

\* What is held is told by the length of the list alone.
LEMMA HoldsIs ==
    ASSUME Shape, ListInv, NEW r \in Resources
    PROVE  Holds(r) <=> r \in Wanted(layer) /\ Rank(layer, r) <= Len(taken)
<1>1. DOMAIN taken = 1 .. Len(taken) /\ Len(taken) \in Nat
  BY DEF Shape
<1>2. ASSUME Holds(r) PROVE r \in Wanted(layer) /\ Rank(layer, r) <= Len(taken)
  BY <1>1, <1>2 DEF Holds, ListInv
<1>3. ASSUME r \in Wanted(layer), Rank(layer, r) <= Len(taken) PROVE Holds(r)
  <2>1. Rank(layer, r) \in DOMAIN taken
    BY <1>1, <1>3, Ranks DEF Shape
  <2> QED BY <1>3, <2>1 DEF Holds, ListInv
<1> QED BY <1>2, <1>3

\* Releasing what was taken last.
LEMMA LastIsFirst ==
    ASSUME NEW R, NEW s \in Seq(R), s # <<>>,
           \A i, j \in 1 .. Len(s) : s[i] = s[j] => i = j
    PROVE  RemoveFirst(s, Last(s)) = Front(s)
<1>1. Len(s) \in Nat \ {0}
  OBVIOUS
<1>2. {i \in 1 .. Len(s) : s[i] = Last(s)} = {Len(s)}
  BY <1>1 DEF Last
<1>3. SelectInSeq(s, LAMBDA v : v = Last(s)) = Len(s)
  <2>1. Min({Len(s)}) = Len(s)
    BY <1>1 DEF Min
  <2> QED BY <1>1, <1>2, <2>1 DEF SelectInSeq
<1>4. SubSeq(s, Len(s) + 1, Len(s)) = <<>>
  BY <1>1
<1>5. Front(s) \in Seq(R)
  BY <1>1 DEF Front
<1>6. \E i \in 1 .. Len(s) : s[i] = Last(s)
  BY <1>1 DEF Last
<1>7. RemoveFirst(s, Last(s)) = RemoveAt(s, Len(s))
  BY <1>3, <1>6 DEF RemoveFirst
<1>8. RemoveAt(s, Len(s)) = Front(s) \o <<>>
  BY <1>4 DEF RemoveAt, Front
<1> QED BY <1>5, <1>7, <1>8, ConcatEmptySeq

\* What remains.
LEMMA FrontIs ==
    ASSUME NEW R, NEW s \in Seq(R), s # <<>>
    PROVE  /\ Front(s) \in Seq(R) /\ Len(Front(s)) = Len(s) - 1
           /\ \A i \in 1 .. Len(s) - 1 : Front(s)[i] = s[i]
           /\ Len(s) \in Nat \ {0} /\ Last(s) \in R
<1>1. Len(s) \in Nat \ {0}
  OBVIOUS
<1>2. PICK n \in Nat : n = Len(s) - 1
  BY <1>1
<1>3. /\ SubSeq(s, 1, n) \in Seq(R)
      /\ Len(SubSeq(s, 1, n)) = n
  BY <1>1, <1>2
<1>4. \A i \in 1 .. n : SubSeq(s, 1, n)[i] = s[i]
  BY <1>1, <1>2
<1>5. Last(s) \in R
  BY <1>1, ElementOfSeq DEF Last
<1> QED BY <1>1, <1>2, <1>3, <1>4, <1>5 DEF Front
\* Nothing else is in hand when nothing is being taken.
LEMMA KeepList ==
    ASSUME ProbeInv, UNCHANGED <<layer, taken, user>> PROVE ListInv' /\ UserInv'
BY DEF ProbeInv, ListInv, UserInv, Holds

\* The next of the list is taken.
LEMMA TakeList ==
    ASSUME ProbeInv, NEW r \in Wanted(layer), Rank(layer, r) = Len(taken) + 1,
           taken' = Append(taken, r), UNCHANGED <<layer, user>>
    PROVE  ListInv' /\ UserInv' /\ taken' \in Seq(Resources) /\ Len(taken') = Len(taken) + 1
<1>1. /\ taken \in Seq(Resources) /\ r \in Resources /\ Len(taken) \in Nat
      /\ layer \in Layers
  BY Ranks DEF ProbeInv, Shape
<1>2. /\ taken' \in Seq(Resources) /\ Len(taken') = Len(taken) + 1
      /\ \A i \in 1 .. Len(taken) : taken'[i] = taken[i]
      /\ taken'[Len(taken) + 1] = r
  BY <1>1, AppendProperties
<1>3. ListInv'
  <2>1. ASSUME NEW i \in 1 .. Len(taken')
        PROVE  taken'[i] \in Wanted(layer) /\ Rank(layer, taken'[i]) = i
    <3>1. CASE i \in 1 .. Len(taken)
      BY <1>2, <3>1 DEF ProbeInv, ListInv
    <3>2. CASE i = Len(taken) + 1
      BY <1>2, <3>2
    <3> QED BY <1>1, <1>2, <2>1, <3>1, <3>2
  <2>2. ASSUME NEW q \in Wanted(layer), Rank(layer, q) <= Len(taken')
        PROVE  taken'[Rank(layer, q)] = q
    <3>0. Rank(layer, q) \in 1 .. 9
      BY <1>1, Ranks
    <3>1. CASE Rank(layer, q) <= Len(taken)
      BY <1>1, <1>2, <3>0, <3>1 DEF ProbeInv, ListInv
    <3>2. CASE Rank(layer, q) = Len(taken) + 1
      <4>1. q = r
        BY <1>1, <3>2, Ranks
      <4> QED BY <1>2, <3>2, <4>1
    <3> QED BY <1>1, <1>2, <2>2, <3>0, <3>1, <3>2
  <2> QED BY <2>1, <2>2 DEF ListInv
<1>4. \A q : Holds(q) => Holds(q)'
  BY <1>1, <1>2 DEF Holds
<1>5. UserInv'
  BY <1>4 DEF ProbeInv, UserInv
<1> QED BY <1>2, <1>3, <1>5

\* The last of the list is released.
LEMMA DropList ==
    ASSUME ProbeInv, taken # <<>>, taken' = RemoveFirst(taken, Last(taken)), Strand(Last(taken)),
           Last(taken) = "slope" => \A p \in Processes : user[p] # "attribute",
           UNCHANGED layer
    PROVE  /\ taken' = Front(taken) /\ taken' \in Seq(Resources) /\ Len(taken') = Len(taken) - 1
           /\ ListInv' /\ UserInv'
           /\ user' \in [Processes -> {"out", "file", "stranded", "attribute"}]
<1>1. /\ taken \in Seq(Resources) /\ Len(taken) \in Nat \ {0} /\ layer \in Layers
      /\ \A i, j \in 1 .. Len(taken) : taken[i] = taken[j] => i = j
  BY FrontIs DEF ProbeInv, Shape, ListInv
<1>2. /\ taken' = Front(taken) /\ taken' \in Seq(Resources) /\ Len(taken') = Len(taken) - 1
      /\ \A i \in 1 .. Len(taken) - 1 : taken'[i] = taken[i]
  BY <1>1, LastIsFirst, FrontIs
<1>3. ListInv'
  BY <1>1, <1>2, Ranks DEF ProbeInv, ListInv
<1>4. \A q : Holds(q) /\ q # Last(taken) => Holds(q)'
  BY <1>1, <1>2 DEF Holds, Last
<1>5. /\ user' \in [Processes -> {"out", "file", "stranded", "attribute"}]
      /\ \A p \in Processes :
            /\ user'[p] = "file" => user[p] = "file" /\ Last(taken) # "node"
            /\ user'[p] = "attribute" => user[p] = "attribute" /\ Last(taken) # "slope"
  BY DEF ProbeInv, Shape, Strand
<1> QED BY <1>2, <1>3, <1>4, <1>5 DEF ProbeInv, UserInv

-----------------------------------------------------------------------------
(* Kinds of step                                                           *)

\* What is left of the invariant when the list is seen to.
Rest == /\ ListInv /\ ManagedInv /\ UserInv
        /\ devres \in Seq(Resources) /\ taken \in Seq(Resources)
        /\ user \in [Processes -> {"out", "file", "stranded", "attribute"}]

\* An error return holds on to everything for the driver core to release.
LEMMA FailRest ==
    ASSUME ProbeInv, pc \notin Actions, Fail PROVE Rest'
BY KeepList DEF Fail, Goto, Rest, ProbeInv, Shape, ManagedInv, Actions

LEMMA ManagedRest ==
    ASSUME ProbeInv, pc \notin Actions, NEW r \in Wanted(layer), Rank(layer, r) = Len(taken) + 1,
           NEW next, next \notin Actions, Goto(next), Managed(r)
    PROVE  Rest' /\ Len(taken') = Len(taken) + 1
<1>1. /\ taken' = Append(taken, r) /\ UNCHANGED <<layer, user>> /\ pc' \notin Actions
      /\ devres = taken /\ devres' = Append(devres, r)
  BY DEF Goto, Managed, ProbeInv, ManagedInv
<1> QED BY <1>1, TakeList DEF Rest, ManagedInv, ProbeInv, Shape

LEMMA TakenRest ==
    ASSUME ProbeInv, pc \notin Actions, NEW r \in Wanted(layer), Rank(layer, r) = Len(taken) + 1,
           NEW next \in Actions, Goto(next), Taken(r), InHand' = r
    PROVE  Rest' /\ Len(taken') = Len(taken) + 1
<1>1. /\ taken' = Append(taken, r) /\ UNCHANGED <<layer, user, devres>> /\ pc' \in Actions
      /\ devres = taken
  BY DEF Goto, Taken, ProbeInv, ManagedInv
<1> QED BY <1>1, TakeList DEF Rest, ManagedInv, ProbeInv, Shape

LEMMA ActionRest ==
    ASSUME ProbeInv, pc \in Actions, NEW next, next \notin Actions, AddAction(InHand, next)
    PROVE  /\ Rest'
           /\ \/ pc' = next /\ UNCHANGED taken
              \/ pc' = "unwind" /\ Len(taken') = Len(taken) - 1 /\ taken' = Front(taken)
           /\ UNCHANGED <<layer, design>>
<1>0. /\ taken = Append(devres, InHand) /\ devres \in Seq(Resources) /\ InHand \in Resources
      /\ user \in [Processes -> {"out", "file", "stranded", "attribute"}]
      /\ taken \in Seq(Resources)
  BY DEF ProbeInv, ManagedInv, Shape, Actions, InHand, chan, buf, Resources
<1>1. /\ taken # <<>> /\ Last(taken) = InHand /\ Front(taken) = devres
  <2>1. Len(taken) = Len(devres) + 1 /\ taken[Len(devres) + 1] = InHand /\ Len(devres) \in Nat
    BY <1>0, AppendProperties
  <2>2. taken # <<>> /\ Last(taken) = InHand
    BY <2>1 DEF Last
  <2>3. \A i \in 1 .. Len(devres) : taken[i] = devres[i]
    BY <1>0, AppendProperties
  <2>4. /\ Front(taken) \in Seq(Resources) /\ Len(Front(taken)) = Len(devres)
        /\ \A i \in 1 .. Len(devres) : Front(taken)[i] = taken[i]
    <3>1. Len(taken) - 1 = Len(devres)
      BY <2>1
    <3>2. /\ Front(taken) \in Seq(Resources) /\ Len(Front(taken)) = Len(taken) - 1
          /\ \A i \in 1 .. Len(taken) - 1 : Front(taken)[i] = taken[i]
      BY <1>0, <2>2, FrontIs
    <3> QED BY <3>1, <3>2
  <2> QED BY <1>0, <2>2, <2>3, <2>4, SeqEqual
<1>2. CASE Goto(next) /\ devres' = Append(devres, InHand) /\ UNCHANGED <<taken, user>>
  BY <1>0, <1>2, KeepList, AppendProperties DEF Goto, Rest, ManagedInv
<1>3. CASE /\ Goto("unwind") /\ taken' = RemoveFirst(taken, InHand)
           /\ Strand(InHand) /\ UNCHANGED devres
  <2>1. InHand # "slope" /\ layer' = layer /\ pc' = "unwind" /\ "unwind" \notin Actions
    BY <1>3 DEF Actions, InHand, chan, buf, Goto
  <2> QED BY <1>0, <1>1, <1>3, <2>1, DropList DEF Rest, ManagedInv, Goto
<1> QED BY <1>2, <1>3 DEF AddAction

\* What places and numbers come to.
LEMMA Numbers ==
    ASSUME Shape
    PROVE  /\ layer.priv \in BOOLEAN /\ layer.duplex \in BOOLEAN /\ layer.group \in BOOLEAN
           /\ One(layer.priv) \in 0 .. 1 /\ One(layer.duplex) \in 0 .. 1
           /\ One(layer.group) \in 0 .. 1 /\ Len(taken) \in Nat
BY LayerRecords DEF Shape, RegisterLayer, One

LEMMA FailProbe ==
    ASSUME ProbeInv, pc \in ProbeSteps \ Actions, Fail, UNCHANGED drvdata PROVE ProbeInv'
<1>1. Rest' /\ pc' = "unwind" /\ UNCHANGED <<layer, design, dir, taken>>
  BY FailRest DEF Fail, Goto
<1>2. Shape'
  BY <1>1 DEF Rest, ProbeInv, Shape
<1>3. PlaceInv' /\ DataInv'
  BY <1>1 DEF ProbeInv, PlaceInv, DataInv
<1> QED BY <1>1, <1>2, <1>3 DEF Rest, ProbeInv

-----------------------------------------------------------------------------
(* The probe                                                               *)

LEMMA BindProbe ==
    ASSUME ProbeInv, NEW l \in Layers, NEW d \in Designs, Bind(l, d) PROVE ProbeInv'
<1>1. /\ taken = <<>> /\ devres = <<>> /\ ~drvdata /\ layer' = l /\ design' = d /\ dir' = "tx"
      /\ pc' = IF l.priv THEN "priv" ELSE "ac"
      /\ UNCHANGED <<devres, drvdata, taken, user>>
  <2>1. Len(taken) = 0
    BY DEF Bind, ProbeInv, PlaceInv, Before
  <2>2. taken = <<>> /\ devres = taken
    BY <2>1, EmptySeq DEF Bind, ProbeInv, Shape, ManagedInv, Actions
  <2>3. ~drvdata
    BY DEF Bind, ProbeInv, DataInv
  <2> QED BY <2>2, <2>3 DEF Bind
<1>2. Shape' /\ ManagedInv'
  BY <1>1 DEF ProbeInv, Shape, ManagedInv, ProbeSteps, Actions
<1>3. \A r \in Wanted(l) : Rank(l, r) \in 1 .. 9
  BY Ranks
<1>4. ListInv'
  BY <1>1, <1>3 DEF ListInv
<1>5. UserInv'
  BY <1>1 DEF ProbeInv, UserInv, Holds
<1>6. Rank(l, "ac") \in Nat \ {0} /\ Rank(l, "regs") \in Nat \ {0}
  BY <1>3 DEF Wanted
<1>7. PlaceInv'
  BY <1>1, <1>2, Numbers DEF PlaceInv, Before, One
<1>8. DataInv'
  BY <1>1, <1>6 DEF DataInv
<1> QED BY <1>2, <1>4, <1>5, <1>7, <1>8 DEF ProbeInv

LEMMA AllocPrivProbe ==
    ASSUME ProbeInv, AllocPriv PROVE ProbeInv'
<1>1. CASE Goto("ac") /\ Managed("priv")
  <2>1. /\ layer.priv /\ Len(taken) = 0 /\ "priv" \in Wanted(layer) /\ Rank(layer, "priv") = 1
        /\ pc \notin Actions /\ "ac" \notin Actions
    BY DEF AllocPriv, ProbeInv, PlaceInv, Before, Wanted, Rank, Actions
  <2>2. Rest' /\ Len(taken') = 1
    BY <1>1, <2>1, ManagedRest
  <2>3. UNCHANGED <<layer, design, dir, drvdata>> /\ pc' = "ac"
    BY <1>1 DEF AllocPriv, Goto, Managed
  <2>4. Shape'
    BY <2>2, <2>3 DEF Rest, ProbeInv, Shape, ProbeSteps
  <2>5. PlaceInv'
    BY <2>1, <2>2, <2>3 DEF AllocPriv, ProbeInv, PlaceInv, Before, One
  <2>6. DataInv'
    BY <2>1, <2>2, <2>3 DEF ProbeInv, DataInv, Rank, One
  <2> QED BY <2>2, <2>4, <2>5, <2>6 DEF Rest, ProbeInv
<1>2. CASE Fail
  BY <1>2, FailProbe DEF AllocPriv, ProbeSteps, Actions
<1> QED BY <1>1, <1>2 DEF AllocPriv

LEMMA AllocAcProbe ==
    ASSUME ProbeInv, AllocAc PROVE ProbeInv'
<1>1. CASE Goto("regs") /\ Managed("ac") /\ drvdata' = TRUE
  <2>1. /\ Len(taken) = One(layer.priv) /\ "ac" \in Wanted(layer)
        /\ Rank(layer, "ac") = Len(taken) + 1 /\ pc \notin Actions /\ "regs" \notin Actions
    BY Numbers DEF AllocAc, ProbeInv, PlaceInv, Before, Wanted, Rank, Actions
  <2>2. Rest' /\ Len(taken') = One(layer.priv) + 1
    BY <1>1, <2>1, ManagedRest
  <2>3. UNCHANGED <<layer, design, dir>> /\ pc' = "regs" /\ drvdata'
    BY <1>1 DEF Goto, Managed
  <2>4. Shape'
    BY <1>1, <2>2, <2>3 DEF Rest, ProbeInv, Shape, ProbeSteps
  <2>5. PlaceInv'
    BY <2>1, <2>2, <2>3, Numbers DEF AllocAc, ProbeInv, PlaceInv, Before
  <2>6. DataInv'
    BY <2>1, <2>2, <2>3, Numbers DEF ProbeInv, DataInv, Rank
  <2> QED BY <2>2, <2>4, <2>5, <2>6 DEF Rest, ProbeInv
<1>2. CASE Fail /\ UNCHANGED drvdata
  BY <1>2, FailProbe DEF AllocAc, ProbeSteps, Actions
<1> QED BY <1>1, <1>2 DEF AllocAc

LEMMA MapRegsProbe ==
    ASSUME ProbeInv, MapRegs PROVE ProbeInv'
<1>1. CASE Goto("id") /\ Managed("regs")
  <2>1. /\ Len(taken) = One(layer.priv) + 1 /\ "regs" \in Wanted(layer)
        /\ Rank(layer, "regs") = Len(taken) + 1 /\ pc \notin Actions /\ "id" \notin Actions
    BY Numbers DEF MapRegs, ProbeInv, PlaceInv, Before, Wanted, Rank, Actions
  <2>2. Rest' /\ Len(taken') = One(layer.priv) + 2
    BY <1>1, <2>1, Numbers, ManagedRest DEF ProbeInv
  <2>3. UNCHANGED <<layer, design, dir, drvdata>> /\ pc' = "id"
    BY <1>1 DEF MapRegs, Goto, Managed
  <2>4. Shape'
    BY <2>2, <2>3 DEF Rest, ProbeInv, Shape, ProbeSteps
  <2>5. PlaceInv'
    BY <2>1, <2>2, <2>3, Numbers DEF MapRegs, ProbeInv, PlaceInv, Before
  <2>6. DataInv'
    BY <2>1, <2>2, <2>3, Numbers DEF ProbeInv, DataInv, Rank
  <2> QED BY <2>2, <2>4, <2>5, <2>6 DEF Rest, ProbeInv
<1>2. CASE Fail
  BY <1>2, FailProbe DEF MapRegs, ProbeSteps, Actions
<1> QED BY <1>1, <1>2 DEF MapRegs

LEMMA ReadIdProbe ==
    ASSUME ProbeInv, ReadId PROVE ProbeInv'
<1>1. CASE design = layer.id /\ Goto("chan") /\ UNCHANGED <<dir, devres, taken, user>>
  <2>1. /\ UNCHANGED <<layer, design, dir, devres, taken, user, drvdata>> /\ pc' = "chan"
        /\ pc = "id" /\ dir = "tx"
    BY <1>1 DEF ReadId, Goto, ProbeInv, PlaceInv
  <2>2. Shape' /\ ManagedInv'
    BY <2>1 DEF ProbeInv, Shape, ProbeSteps, ManagedInv, Actions
  <2>3. PlaceInv'
    BY <2>1, Numbers DEF ProbeInv, PlaceInv, Before, Side
  <2>4. DataInv'
    BY <1>1, <2>1 DEF ProbeInv, DataInv
  <2> QED BY <2>1, <2>2, <2>3, <2>4, KeepList DEF ProbeInv
<1>2. CASE Fail
  BY <1>2, FailProbe DEF ReadId, ProbeSteps, Actions
<1> QED BY <1>1, <1>2 DEF ReadId
LEMMA RequestChanProbe ==
    ASSUME ProbeInv, RequestChan PROVE ProbeInv'
<1>1. CASE Goto("chan_action") /\ Taken(chan)
  <2>1. /\ Len(taken) = One(layer.priv) + 2 + Side /\ chan \in Wanted(layer)
        /\ Rank(layer, chan) = Len(taken) + 1
        /\ pc \notin Actions /\ "chan_action" \in Actions
    BY Numbers DEF RequestChan, ProbeInv, Shape, PlaceInv, Before, Side, Wanted, Rank, Actions, chan
  <2>2. UNCHANGED <<layer, design, dir, drvdata>> /\ pc' = "chan_action" /\ pc = "chan"
    BY <1>1 DEF RequestChan, Goto, Taken
  <2>3. InHand' = chan
    BY <2>2 DEF InHand, chan
  <2>4. Rest' /\ Len(taken') = One(layer.priv) + 3 + Side
    BY <1>1, <2>1, <2>3, Numbers, TakenRest DEF ProbeInv, Side
  <2>5. Shape'
    BY <2>2, <2>4 DEF Rest, ProbeInv, Shape, ProbeSteps
  <2>6. PlaceInv'
    BY <2>2, <2>4, Numbers DEF ProbeInv, PlaceInv, Before, Side
  <2>7. DataInv'
    BY <2>1, <2>2, <2>4, Numbers DEF ProbeInv, DataInv, Rank, Side
  <2> QED BY <2>4, <2>5, <2>6, <2>7 DEF Rest, ProbeInv
<1>2. CASE Fail
  BY <1>2, FailProbe DEF RequestChan, ProbeSteps, Actions
<1> QED BY <1>1, <1>2 DEF RequestChan

LEMMA AllocBufProbe ==
    ASSUME ProbeInv, AllocBuf PROVE ProbeInv'
<1>1. CASE Goto("buf_action") /\ Taken(buf)
  <2>1. /\ Len(taken) = One(layer.priv) + 3 + Side /\ buf \in Wanted(layer)
        /\ Rank(layer, buf) = Len(taken) + 1
        /\ pc \notin Actions /\ "buf_action" \in Actions
    BY Numbers DEF AllocBuf, ProbeInv, Shape, PlaceInv, Before, Side, Wanted, Rank, Actions, buf
  <2>2. UNCHANGED <<layer, design, dir, drvdata>> /\ pc' = "buf_action" /\ pc = "buf"
    BY <1>1 DEF AllocBuf, Goto, Taken
  <2>3. InHand' = buf
    BY <2>2 DEF InHand, buf
  <2>4. Rest' /\ Len(taken') = One(layer.priv) + 4 + Side
    BY <1>1, <2>1, <2>3, Numbers, TakenRest DEF ProbeInv, Side
  <2>5. Shape'
    BY <2>2, <2>4 DEF Rest, ProbeInv, Shape, ProbeSteps
  <2>6. PlaceInv'
    BY <2>2, <2>4, Numbers DEF ProbeInv, PlaceInv, Before, Side
  <2>7. DataInv'
    BY <2>1, <2>2, <2>4, Numbers DEF ProbeInv, DataInv, Rank, Side
  <2> QED BY <2>4, <2>5, <2>6, <2>7 DEF Rest, ProbeInv
<1>2. CASE Fail
  BY <1>2, FailProbe DEF AllocBuf, ProbeSteps, Actions
<1> QED BY <1>1, <1>2 DEF AllocBuf

LEMMA RegisterNodeProbe ==
    ASSUME ProbeInv, RegisterNode PROVE ProbeInv'
<1>1. CASE Goto("node_action") /\ Taken("node")
  <2>1. /\ Len(taken) = One(layer.priv) + 4 + 2 * One(layer.duplex) /\ "node" \in Wanted(layer)
        /\ Rank(layer, "node") = Len(taken) + 1
        /\ pc \notin Actions /\ "node_action" \in Actions
    BY Numbers DEF RegisterNode, ProbeInv, PlaceInv, Before, Wanted, Rank, Actions
  <2>2. UNCHANGED <<layer, design, dir, drvdata>> /\ pc' = "node_action" /\ pc = "node"
    BY <1>1 DEF RegisterNode, Goto, Taken
  <2>3. InHand' = "node"
    BY <2>2 DEF InHand
  <2>4. Rest' /\ Len(taken') = One(layer.priv) + 5 + 2 * One(layer.duplex)
    BY <1>1, <2>1, <2>3, Numbers, TakenRest DEF ProbeInv
  <2>5. Shape'
    BY <2>2, <2>4 DEF Rest, ProbeInv, Shape, ProbeSteps
  <2>6. PlaceInv'
    BY <2>2, <2>4, Numbers DEF ProbeInv, PlaceInv, Before
  <2>7. DataInv'
    BY <2>1, <2>2, <2>4, Numbers DEF ProbeInv, DataInv, Rank
  <2> QED BY <2>4, <2>5, <2>6, <2>7 DEF Rest, ProbeInv
<1>2. CASE Fail
  BY <1>2, FailProbe DEF RegisterNode, ProbeSteps, Actions
<1> QED BY <1>1, <1>2 DEF RegisterNode

LEMMA AddGroupProbe ==
    ASSUME ProbeInv, AddGroup PROVE ProbeInv'
<1>1. CASE Goto("bound") /\ Managed("slope")
  <2>1. /\ Len(taken) = One(layer.priv) + 5 + 2 * One(layer.duplex) /\ "slope" \in Wanted(layer)
        /\ Rank(layer, "slope") = Len(taken) + 1 /\ One(layer.group) = 1
        /\ pc \notin Actions /\ "bound" \notin Actions
    BY Numbers DEF AddGroup, ProbeInv, PlaceInv, Before, Wanted, Rank, Actions, One
  <2>2. Rest' /\ Len(taken') = One(layer.priv) + 5 + 2 * One(layer.duplex) + One(layer.group)
    BY <1>1, <2>1, Numbers, ManagedRest DEF ProbeInv
  <2>3. UNCHANGED <<layer, design, dir, drvdata>> /\ pc' = "bound"
    BY <1>1 DEF AddGroup, Goto, Managed
  <2>4. Shape'
    BY <2>2, <2>3 DEF Rest, ProbeInv, Shape, ProbeSteps
  <2>5. PlaceInv'
    BY <2>2, <2>3, Numbers DEF ProbeInv, PlaceInv, Before
  <2>6. DataInv'
    BY <2>1, <2>2, <2>3, Numbers DEF ProbeInv, DataInv, Rank
  <2> QED BY <2>2, <2>4, <2>5, <2>6 DEF Rest, ProbeInv
<1>2. CASE Fail
  BY <1>2, FailProbe DEF AddGroup, ProbeSteps, Actions
<1> QED BY <1>1, <1>2 DEF AddGroup

\* The release of what is in hand is registered, or it is released.
LEMMA Managing ==
    ASSUME ProbeInv, ManageChan \/ ManageBuf \/ ManageNode
    PROVE  /\ UNCHANGED <<layer, design, drvdata>> /\ pc \in Actions /\ Rest'
           /\ \/ UNCHANGED taken
              \/ pc' = "unwind" /\ Len(taken') = Len(taken) - 1 /\ taken' = Front(taken)
           /\ \/ pc' = "unwind"
              \/ pc = "chan_action" /\ pc' = "buf" /\ UNCHANGED dir
              \/ /\ pc = "buf_action" /\ pc' = (IF layer.duplex /\ dir = "tx" THEN "chan" ELSE "node")
                 /\ dir' = IF pc' = "chan" THEN "rx" ELSE dir
              \/ pc = "node_action" /\ pc' = (IF layer.group THEN "group" ELSE "bound")
           /\ dir' \in {"tx", "rx"}
<1>1. CASE ManageChan
  <2>1. InHand = chan /\ "buf" \notin Actions /\ pc \in Actions
    BY <1>1 DEF ManageChan, InHand, Actions
  <2> QED BY <1>1, <2>1, ActionRest DEF ManageChan, ProbeInv, Shape
<1>2. CASE ManageBuf
  <2>1. /\ InHand = buf /\ pc \in Actions
        /\ (IF layer.duplex /\ dir = "tx" THEN "chan" ELSE "node") \notin Actions
    BY <1>2 DEF ManageBuf, InHand, Actions
  <2> QED BY <1>2, <2>1, ActionRest DEF ManageBuf, ProbeInv, Shape
<1>3. CASE ManageNode
  <2>1. /\ InHand = "node" /\ pc \in Actions
        /\ (IF layer.group THEN "group" ELSE "bound") \notin Actions
    BY <1>3 DEF ManageNode, InHand, Actions
  <2> QED BY <1>3, <2>1, ActionRest DEF ManageNode, ProbeInv, Shape
<1> QED BY <1>1, <1>2, <1>3

LEMMA ManageProbe ==
    ASSUME ProbeInv, ManageChan \/ ManageBuf \/ ManageNode PROVE ProbeInv'
<1>1. Shape'
  BY Managing DEF Rest, ProbeInv, Shape, ProbeSteps
<1>2. PlaceInv'
  <2>1. CASE pc' = "unwind"
    BY <2>1 DEF PlaceInv, Before
  <2>2. CASE pc = "chan_action" /\ pc' = "buf" /\ UNCHANGED <<dir, taken>>
    BY Managing, <2>2, Numbers DEF ProbeInv, PlaceInv, Before, Side
  <2>3. CASE /\ pc = "buf_action" /\ pc' = "chan" /\ layer.duplex /\ dir = "tx" /\ dir' = "rx"
             /\ UNCHANGED taken
    BY Managing, <2>3, Numbers DEF ProbeInv, PlaceInv, Before, Side
  <2>4. CASE /\ pc = "buf_action" /\ pc' = "node" /\ ~(layer.duplex /\ dir = "tx")
             /\ UNCHANGED <<dir, taken>>
    BY Managing, <2>4, Numbers DEF ProbeInv, Shape, PlaceInv, Before, Side, One
  <2>5. CASE /\ pc = "node_action" /\ pc' = (IF layer.group THEN "group" ELSE "bound")
             /\ UNCHANGED taken
    BY Managing, <2>5, Numbers DEF ProbeInv, PlaceInv, Before, One
  <2> QED BY Managing, <2>1, <2>2, <2>3, <2>4, <2>5
<1>3. DataInv'
  <2>1. Len(taken) > One(layer.priv) + 2
    <3>1. Side \in {0, 2} /\ Len(taken) = Before(pc)
      BY Managing DEF Side, ProbeInv, PlaceInv, Actions
    <3>2. CASE pc = "chan_action"
      BY <3>1, <3>2, Numbers DEF ProbeInv, Before
    <3>3. CASE pc = "buf_action"
      BY <3>1, <3>3, Numbers DEF ProbeInv, Before
    <3>4. CASE pc = "node_action"
      BY <3>1, <3>4, Numbers DEF ProbeInv, Before
    <3> QED BY <3>2, <3>3, <3>4, Managing DEF Actions
  <2>2. drvdata /\ design = layer.id
    BY <2>1, Numbers DEF ProbeInv, DataInv, Rank
  <2>3. pc' # "idle"
    BY Managing
  <2> QED BY Managing, <2>2, <2>3 DEF DataInv
<1> QED BY Managing, <1>1, <1>2, <1>3 DEF Rest, ProbeInv

-----------------------------------------------------------------------------
(* The driver core and the processes                                       *)

LEMMA UnbindProbe ==
    ASSUME ProbeInv, Unbind \/ Unbound PROVE ProbeInv'
<1>1. /\ UNCHANGED <<layer, design, dir, devres, taken, user>>
      /\ pc \notin Actions /\ pc' \notin Actions /\ pc' \in {"unwind", "idle"}
      /\ drvdata' \in BOOLEAN
      /\ pc' = "idle" => taken = <<>> /\ ~drvdata'
      /\ pc' = "unwind" => drvdata' = drvdata
  BY DEF Unbind, Unbound, Goto, Actions, ProbeInv, Shape, ManagedInv
<1>2. Shape' /\ ManagedInv'
  BY <1>1 DEF ProbeInv, Shape, ManagedInv
<1>3. PlaceInv'
  BY <1>1 DEF PlaceInv, Before
<1>4. Rank(layer, "ac") \in Nat \ {0} /\ Rank(layer, "regs") \in Nat \ {0}
  BY Ranks DEF ProbeInv, Shape, Wanted
<1>5. DataInv'
  BY <1>1, <1>4 DEF ProbeInv, DataInv
<1> QED BY <1>1, <1>2, <1>3, <1>5, KeepList DEF ProbeInv

\* What Release takes off the list.
LEMMA Released ==
    ASSUME ProbeInv, Release
    PROVE  /\ taken' = Front(taken) /\ Len(taken') = Len(taken) - 1 /\ Rest'
           /\ UNCHANGED <<layer, design, pc, dir, drvdata>> /\ pc = "unwind"
<1>1. /\ taken = devres /\ taken # <<>> /\ taken' = RemoveFirst(taken, Last(taken))
      /\ Strand(Last(taken)) /\ devres' = Front(taken)
      /\ Last(taken) = "slope" => \A p \in Processes : user[p] # "attribute"
      /\ UNCHANGED <<layer, design, pc, dir, drvdata>> /\ pc = "unwind" /\ pc \notin Actions
  BY DEF Release, ProbeInv, ManagedInv, Actions
<1> QED BY <1>1, DropList DEF Rest, ManagedInv

LEMMA ReleaseProbe ==
    ASSUME ProbeInv, Release PROVE ProbeInv'
<1>1. Shape'
  BY Released DEF Rest, ProbeInv, Shape
<1>2. PlaceInv' /\ DataInv'
  BY Released, Numbers, Ranks DEF ProbeInv, PlaceInv, DataInv, Rank
<1> QED BY Released, <1>1, <1>2 DEF Rest, ProbeInv

\* A process moves, and the probe does not.
LEMMA Undisturbed ==
    ASSUME ProbeInv, Shape', UserInv', UNCHANGED <<layer, design, pc, dir, devres, drvdata, taken>>
    PROVE  ProbeInv'
<1>1. InHand' = InHand /\ Before(pc)' = Before(pc)
  BY DEF InHand, chan, buf, Before, Side
<1>2. ListInv' /\ ManagedInv'
  BY <1>1 DEF ProbeInv, ListInv, ManagedInv
<1>3. PlaceInv' /\ DataInv'
  BY <1>1 DEF ProbeInv, PlaceInv, DataInv
<1> QED BY <1>2, <1>3 DEF ProbeInv

LEMMA ProcessProbe ==
    ASSUME ProbeInv, NEW p \in Processes, Open(p) \/ Enter(p) \/ Leave(p) PROVE ProbeInv'
<1>1. UNCHANGED <<layer, design, pc, dir, devres, drvdata, taken>>
  BY DEF Open, Enter, Leave
<1>2. Shape'
  BY <1>1 DEF Open, Enter, Leave, ProbeInv, Shape
<1>3. UserInv'
  BY <1>1 DEF Open, Enter, Leave, ProbeInv, Shape, UserInv, Holds
<1> QED BY <1>1, <1>2, <1>3, Undisturbed

LEMMA StutterProbe ==
    ASSUME ProbeInv, UNCHANGED vars PROVE ProbeInv'
<1>1. Shape' /\ UserInv'
  BY DEF vars, ProbeInv, Shape, UserInv, Holds
<1> QED BY <1>1, Undisturbed DEF vars

LEMMA InitProbe == Init => ProbeInv
<1> SUFFICES ASSUME Init PROVE ProbeInv
  OBVIOUS
<1>1. Shape
  <2>1. user \in [Processes -> {"out", "file", "stranded", "attribute"}]
    BY DEF Init
  <2>2. devres \in Seq(Resources) /\ taken \in Seq(Resources)
    BY DEF Init
  <2>3. drvdata \in BOOLEAN
    BY Zenon DEF Init
  <2> QED BY <2>1, <2>2, <2>3 DEF Init, Shape
<1>2. \A r \in Wanted(layer) : Rank(layer, r) \in 1 .. 9
  BY <1>1, Ranks DEF Shape
<1>3. "ac" \in Wanted(layer) /\ "regs" \in Wanted(layer)
  BY DEF Wanted
<1>4. ListInv /\ ManagedInv /\ UserInv
  BY <1>2 DEF Init, ListInv, ManagedInv, Actions, UserInv
<1>5. PlaceInv /\ DataInv
  BY <1>2, <1>3 DEF Init, PlaceInv, DataInv, Before
<1> QED BY <1>1, <1>4, <1>5 DEF ProbeInv

LEMMA ProbeInvariant == Spec => []ProbeInv
<1>1. ProbeInv /\ [Next]_vars => ProbeInv'
  BY BindProbe, AllocPrivProbe, AllocAcProbe, MapRegsProbe, ReadIdProbe, RequestChanProbe,
     ManageProbe, AllocBufProbe, RegisterNodeProbe, AddGroupProbe, UnbindProbe, ReleaseProbe,
     ProcessProbe, StutterProbe DEF Next, Probe
<1> QED BY <1>1, InitProbe, PTL DEF Spec

-----------------------------------------------------------------------------
(* Theorems                                                                *)

\* Every variable keeps its type and no resource is taken twice, for any
\* register layers: a probe takes what accel_probe and its layer say, once.
THEOREM ProbeTyped == Spec => []TypeOK
<1>1. ProbeInv => TypeOK
  <2> SUFFICES ASSUME ProbeInv PROVE TypeOK
    OBVIOUS
  <2>1. DOMAIN taken = 1 .. Len(taken)
    BY DEF ProbeInv, Shape
  <2>2. \A i, j \in DOMAIN taken : taken[i] = taken[j] => i = j
    BY <2>1 DEF ProbeInv, ListInv
  <2> QED BY <2>2 DEF ProbeInv, Shape, TypeOK
<1> QED BY <1>1, ProbeInvariant, PTL

\* While the node exists, and while a process that opened it has not lost it,
\* everything a tile touches is held and the design is the layer's own
\* (accel_transport.c 324-388).
THEOREM PublishedNodeIsUsable == Spec => []PublishedIsUsable
<1>1. ProbeInv => PublishedIsUsable
  <2> SUFFICES ASSUME ProbeInv, Holds("node") PROVE design = layer.id /\ \A r \in Needs : Holds(r)
    BY DEF PublishedIsUsable, ProbeInv, UserInv
  <2>1. /\ Shape /\ ListInv /\ Needs \subseteq Resources /\ "node" \in Resources
        /\ Needs \subseteq Wanted(layer) \ {"node", "slope"}
    BY Numbers DEF ProbeInv, Needs, Resources, Wanted
  <2>2. Rank(layer, "node") <= Len(taken)
    BY <2>1, HoldsIs
  <2>3. \A r \in Needs : Rank(layer, r) <= Rank(layer, "node")
    BY <2>1, Numbers DEF Needs, Rank, One
  <2>4. \A r \in Needs : Rank(layer, r) \in Nat
    BY <2>1, Ranks DEF Shape
  <2>5. \A r \in Needs : Holds(r)
    <3> TAKE r \in Needs
    <3>1. Rank(layer, r) <= Len(taken)
      BY <2>1, <2>2, <2>3, <2>4, Numbers, Ranks DEF Shape, Wanted
    <3> QED BY <2>1, <3>1, HoldsIs
  <2>6. design = layer.id
    BY <2>1, <2>2, Numbers DEF ProbeInv, DataInv, Rank
  <2> QED BY <2>5, <2>6
<1> QED BY <1>1, ProbeInvariant, PTL

\* A process inside the slope attribute finds the driver data, and behind it the
\* accelerator and its registers (relu.c 137-165, 180-193).
THEOREM AttributeFindsDevice == Spec => []AttributeReachesDevice
<1>1. ProbeInv => AttributeReachesDevice
  <2> SUFFICES ASSUME ProbeInv, Holds("slope") PROVE drvdata /\ Holds("ac") /\ Holds("regs")
    BY DEF AttributeReachesDevice, ProbeInv, UserInv
  <2>1. Shape /\ ListInv /\ {"slope", "ac", "regs"} \subseteq Resources
    BY DEF ProbeInv, Resources
  <2>2. Rank(layer, "slope") <= Len(taken)
    BY <2>1, HoldsIs
  <2>3. Rank(layer, "ac") <= Len(taken) /\ Rank(layer, "regs") <= Len(taken)
    BY <2>1, <2>2, Numbers DEF Rank
  <2>4. "ac" \in Wanted(layer) /\ "regs" \in Wanted(layer)
    BY DEF Wanted
  <2>5. drvdata
    BY <2>1, <2>3, Numbers DEF ProbeInv, DataInv, Rank
  <2> QED BY <2>1, <2>3, <2>4, <2>5, HoldsIs
<1> QED BY <1>1, ProbeInvariant, PTL

\* Whatever fails, in a probe or in registering a release, nothing is held that
\* the driver core will not release, and an idle device holds nothing
\* (accel_transport.c 278-322).
THEOREM NoLeak == Spec => []NothingLeaks
<1>1. ProbeInv => NothingLeaks
  <2> SUFFICES ASSUME ProbeInv PROVE NothingLeaks
    OBVIOUS
  <2>1. pc \notin Actions => taken = devres
    BY DEF ProbeInv, ManagedInv
  <2>2. pc = "idle" => taken = <<>> /\ ~drvdata
    BY EmptySeq DEF ProbeInv, Shape, PlaceInv, DataInv, Before
  <2> QED BY <2>1, <2>2 DEF NothingLeaks, Actions
<1> QED BY <1>1, ProbeInvariant, PTL

\* What goes is always what came last: a buffer before its channel, the node
\* before the buffers, on every way out of a probe and at removal.
THEOREM LastTakenFirstReleased == Spec => ReleasedInReverse
<1>1. ProbeInv /\ [Next]_vars => [Len(taken') < Len(taken) => taken' = Front(taken)]_vars
  <2> SUFFICES ASSUME ProbeInv, Next, Len(taken') < Len(taken) PROVE taken' = Front(taken)
    OBVIOUS
  <2>1. CASE Release
    BY <2>1, Released
  <2>2. CASE ManageChan \/ ManageBuf \/ ManageNode
    BY <2>2, Managing DEF ProbeInv, Shape
  <2>3. CASE UNCHANGED taken
    BY <2>3 DEF ProbeInv, Shape
  <2>4. ASSUME NEW r \in Resources, taken' = Append(taken, r) PROVE FALSE
    BY <2>4 DEF ProbeInv, Shape
  <2> QED BY <2>1, <2>2, <2>3, <2>4
          DEF Next, Bind, Probe, AllocPriv, AllocAc, MapRegs, ReadId, RequestChan, AllocBuf,
              RegisterNode, AddGroup, Unbind, Unbound, Open, Enter, Leave, Managed, Taken, Fail,
              Resources, chan, buf
<1> QED BY <1>1, ProbeInvariant, PTL DEF Spec, ReleasedInReverse
=============================================================================
