-------------------------- MODULE BuildFlowProofs --------------------------
(***************************************************************************)
(* Safety of the embedded build flow for any set of accelerators and any   *)
(* number of builds, whatever each command is run for and wherever it      *)
(* fails.                                                                  *)
(***************************************************************************)
EXTENDS BuildFlow, FiniteSetTheorems, SequenceTheorems, TLAPS

-----------------------------------------------------------------------------
(* The overlay                                                             *)

\* The community module's FlattenSeq, on the one or two sequences of this flow.
LEMMA FlattenOne == ASSUME NEW s, Len(s) = 1 PROVE FlattenSeq(s) = s[1]
<1> DEFINE step(f) == [i \in 1 .. Len(s) |-> IF i = 1 THEN s[i] ELSE f[i-1] \o s[i]]
           flatten == CHOOSE f : f = step(f)
<1>0. Len(s) # 0
  OBVIOUS
<1>1. FlattenSeq(s) = flatten[Len(s)]
  BY <1>0 DEF FlattenSeq
<1>2. flatten = step(flatten)
  <2> DEFINE h == [i \in 1 .. Len(s) |-> s[1]]
  <2>1. h = step(h)
    OBVIOUS
  <2> HIDE DEF h, step
  <2> QED BY <2>1
<1> HIDE DEF flatten
<1> QED BY <1>1, <1>2

\* On two, their concatenation.
LEMMA FlattenTwo == ASSUME NEW s, Len(s) = 2 PROVE FlattenSeq(s) = s[1] \o s[2]
<1> DEFINE step(f) == [i \in 1 .. Len(s) |-> IF i = 1 THEN s[i] ELSE f[i-1] \o s[i]]
           flatten == CHOOSE f : f = step(f)
<1>0. Len(s) # 0
  OBVIOUS
<1>1. FlattenSeq(s) = flatten[Len(s)]
  BY <1>0 DEF FlattenSeq
<1>2. flatten = step(flatten)
  <2> DEFINE h == [i \in 1 .. Len(s) |-> IF i = 1 THEN s[1] ELSE s[1] \o s[2]]
  <2>1. h = step(h)
    OBVIOUS
  <2> HIDE DEF h, step
  <2> QED BY <2>1
<1> HIDE DEF flatten
<1> QED BY <1>1, <1>2

\* The three cells after the first a.
LEMMA Cut ==
    ASSUME NEW w, NEW u \in Seq(Nat), Len(u) = 3, NEW a \in Int, \A i \in 1 .. 3 : w[a + i] = u[i]
    PROVE  SubSeq(w, a + 1, a + 3) = u
<1> DEFINE m == a + 1
           n == a + 3
           s == SubSeq(w, m, n)
<1>1. m \in Int /\ n \in Int /\ m <= n /\ n - m + 1 = 3
  OBVIOUS
<1>2. \A j \in m .. n : w[j] \in Nat
  <2>1. \A i \in 1 .. 3 : u[i] \in Nat
    BY ElementOfSeq
  <2>2. ASSUME NEW j \in m .. n PROVE w[j] \in Nat
    <3> DEFINE i == j - a
    <3>1. i \in 1 .. 3 /\ a + i = j
      OBVIOUS
    <3> HIDE DEF i
    <3> QED BY <2>1, <3>1, Zenon
  <2> QED BY <2>2
<1>3. ASSUME NEW i \in 1 .. 3 PROVE w[m + i - 1] = u[i]
  <2>1. m + i - 1 = a + i
    OBVIOUS
  <2> QED BY <2>1
<1> HIDE DEF m, n
<1>4. /\ s \in Seq(Nat)
      /\ Len(s) = (IF m <= n THEN n - m + 1 ELSE 0)
      /\ \A i \in 1 .. n - m + 1 : s[i] = w[m + i - 1]
  BY <1>1, <1>2, SubSeqProperties
<1> HIDE DEF s
<1>5. Len(s) = 3 /\ \A i \in 1 .. 3 : s[i] = u[i]
  BY <1>1, <1>3, <1>4, Zenon
<1>6. s = u
  BY <1>4, <1>5, SeqEqual
<1> QED BY <1>6 DEF s, m, n

\* Two specifiers of three cells, cut apart again.
LEMMA Halves ==
    ASSUME NEW u \in Seq(Nat), NEW v \in Seq(Nat), Len(u) = 3, Len(v) = 3
    PROVE  /\ Len(u \o v) = 6
           /\ SubSeq(u \o v, 1, 3) = u /\ SubSeq(u \o v, 4, 6) = v
<1>1. /\ u \o v \in Seq(Nat) /\ Len(u \o v) = 6
      /\ \A i \in 1 .. 6 : (u \o v)[i] = IF i <= 3 THEN u[i] ELSE v[i-3]
  <2>1. /\ u \o v \in Seq(Nat) /\ Len(u \o v) = Len(u) + Len(v)
        /\ \A i \in 1 .. Len(u) + Len(v) :
              (u \o v)[i] = IF i <= Len(u) THEN u[i] ELSE v[i - Len(u)]
    BY ConcatProperties, Zenon
  <2>2. Len(u) + Len(v) = 6
    OBVIOUS
  <2> QED BY <2>1, <2>2, Zenon
<1> DEFINE w == u \o v
<1>2. \A i \in 1 .. 3 : w[0 + i] = u[i] /\ w[3 + i] = v[i]
  BY <1>1
<1> HIDE DEF w
<1>3. SubSeq(w, 0 + 1, 0 + 3) = u /\ SubSeq(w, 3 + 1, 3 + 3) = v
  BY <1>2, Cut
<1> QED BY <1>1, <1>3 DEF w

\* A node with one named interrupt.
LEMMA OneInterrupt ==
    ASSUME NEW node, NEW x, NEW u \in Seq(Nat), Len(u) = 3,
           Len(node.names) = 1, node.names[1] = x, node.cells = u
    PROVE  DOMAIN by_name(node) = {x} /\ by_name(node)[x] = u
<1> DEFINE specs == interrupt_specs(node)
<1>1. Len(node.cells) = 3 /\ 3 \div 1 = 3 /\ 3 % 1 = 0 /\ Len(node.names) = 1
  OBVIOUS
<1>2. specs = [i \in 1 .. 1 |-> SubSeq(u, (i - 1) * 3 + 1, i * 3)]
  <2>1. specs = [i \in 1 .. 1 |-> SubSeq(node.cells, (i - 1) * 3 + 1, i * 3)]
    <3> DEFINE n == Len(node.names)
               l == Len(node.cells)
               width == l \div n
    <3>1. specs = IF n = 0 \/ l % n # 0 THEN <<>>
                  ELSE [i \in 1 .. n |-> SubSeq(node.cells, (i - 1) * width + 1, i * width)]
      BY Zenon DEF interrupt_specs
    <3>2. n = 1 /\ l = 3
      BY <1>1
    <3> HIDE DEF n, l, specs
    <3>3. n # 0 /\ l % n = 0 /\ width = 3
      BY <3>2
    <3> HIDE DEF width
    <3> QED BY <3>1, <3>2, <3>3
  <2> QED BY <2>1
<1>3. SubSeq(u, 1, 3) = u
  <2>1. SubSeq(u, 0 + 1, 0 + 3) = u
    <3>1. \A i \in 1 .. 3 : u[0 + i] = u[i]
      OBVIOUS
    <3> QED BY <3>1, Cut
  <2> QED BY <2>1
<1>4. DOMAIN specs = {1} /\ specs[1] = u
  BY <1>2, <1>3
<1> HIDE DEF specs
<1>5. by_name(node) = [n \in {node.names[i] : i \in DOMAIN specs} |->
                          specs[CHOOSE i \in DOMAIN specs : node.names[i] = n]]
  BY DEF by_name, specs
<1>6. {node.names[i] : i \in DOMAIN specs} = {x}
  BY <1>4
<1>7. (CHOOSE i \in DOMAIN specs : node.names[i] = x) = 1
  BY <1>4
<1> QED BY <1>4, <1>5, <1>6, <1>7

\* A node with two names and two specifiers, each found under its name.
Names(node, x, y) == x # y /\ Len(node.names) = 2 /\ node.names[1] = x /\ node.names[2] = y

Cells(node, u, v) == /\ u \in Seq(Nat) /\ Len(u) = 3 /\ v \in Seq(Nat) /\ Len(v) = 3
                     /\ node.cells = u \o v

Found(node, x, y, u, v) ==
    DOMAIN by_name(node) = {x, y} /\ by_name(node)[x] = u /\ by_name(node)[y] = v

LEMMA TwoInterrupts ==
    ASSUME NEW node, NEW x, NEW y, NEW u, NEW v, Names(node, x, y), Cells(node, u, v)
    PROVE  Found(node, x, y, u, v)
<1> USE DEF Names, Cells, Found
<1> DEFINE specs == interrupt_specs(node)
<1>1. Len(node.cells) = 6 /\ 6 \div 2 = 3 /\ 6 % 2 = 0
  BY Halves
<1>2. specs = [i \in 1 .. 2 |-> SubSeq(node.cells, (i - 1) * 3 + 1, i * 3)]
  BY <1>1 DEF interrupt_specs
<1>3. specs[1] = SubSeq(node.cells, 1, 3) /\ specs[2] = SubSeq(node.cells, 4, 6)
  BY <1>2
<1>4. DOMAIN specs = {1, 2} /\ specs[1] = u /\ specs[2] = v
  <2>1. specs[1] = u /\ specs[2] = v
    BY <1>3, Halves
  <2>2. DOMAIN specs = {1, 2}
    BY <1>2
  <2> QED BY <2>1, <2>2
<1> HIDE DEF specs
<1>5. by_name(node) = [n \in {node.names[i] : i \in DOMAIN specs} |->
                          specs[CHOOSE i \in DOMAIN specs : node.names[i] = n]]
  BY DEF by_name, specs
<1>6. {node.names[i] : i \in DOMAIN specs} = {x, y}
  BY <1>4
<1>7. (CHOOSE i \in DOMAIN specs : node.names[i] = x) = 1
  BY <1>4
<1>8. (CHOOSE i \in DOMAIN specs : node.names[i] = y) = 2
  BY <1>4
<1> QED BY <1>4, <1>5, <1>6, <1>7, <1>8

\* The interrupts of the design's lines are specifiers of three cells.
LEMMA Lines ==
    /\ pl_ps_irq0["mm2s"] \in Seq(Nat) /\ Len(pl_ps_irq0["mm2s"]) = 3
    /\ pl_ps_irq0["s2mm"] \in Seq(Nat) /\ Len(pl_ps_irq0["s2mm"]) = 3
BY DEF pl_ps_irq0

InterruptName(port) == IF port = "mm2s" THEN "mm2s_introut" ELSE "s2mm_introut"

\* The DMA's node, written out.
LEMMA DmaFields ==
    ASSUME NEW t, NEW spelling
    PROVE  LET dma == DmaNode(t, spelling) IN
           dma = [label |-> "axi_dma_0", ip |-> "axi_dma", refs |-> {"imux", spelling.clock},
                  names |-> dma.names, cells |-> dma.cells,
                  channels |-> { Channel(k, <<0, 101, 4>>) : k \in Connected(t) },
                  dmas |-> {}]
<1> DEFINE ports == IF ~has_m_axis(t) THEN <<"mm2s">>
                    ELSE IF spelling.first = "mm2s" THEN <<"mm2s", "s2mm">>
                    ELSE <<"s2mm", "mm2s">>
           introut == [mm2s |-> "mm2s_introut", s2mm |-> "s2mm_introut"]
           names == [i \in DOMAIN ports |-> introut[ports[i]]]
           lines == FlattenSeq([i \in DOMAIN ports |-> pl_ps_irq0[ports[i]]])
           chans == { Channel(k, <<0, 101, 4>>) : k \in Connected(t) }
<1>1. DmaNode(t, spelling) =
        [Node("axi_dma_0", "axi_dma", {"imux", spelling.clock}) EXCEPT
           !.names = names, !.cells = lines, !.channels = chans]
  BY DEF DmaNode
<1> HIDE DEF ports, introut, names, lines, chans
<1>2. DmaNode(t, spelling) =
        [label |-> "axi_dma_0", ip |-> "axi_dma", refs |-> {"imux", spelling.clock},
         names |-> names, cells |-> lines, channels |-> chans, dmas |-> {}]
  BY <1>1 DEF Node
<1> QED BY <1>2 DEF chans

\* However the generator orders them, each interrupt carries the line of its port.
LEMMA DmaLines ==
    ASSUME NEW t \in Tops, NEW spelling \in Styles, NEW node,
           node.names = DmaNode(t, spelling).names, node.cells = DmaNode(t, spelling).cells
    PROVE  /\ DOMAIN by_name(node) = {InterruptName(k) : k \in Connected(t)}
           /\ \A k \in Connected(t) : by_name(node)[InterruptName(k)] = pl_ps_irq0[k]
<1> DEFINE ports == IF ~has_m_axis(t) THEN <<"mm2s">>
                    ELSE IF spelling.first = "mm2s" THEN <<"mm2s", "s2mm">>
                    ELSE <<"s2mm", "mm2s">>
           introut == [mm2s |-> "mm2s_introut", s2mm |-> "s2mm_introut"]
           names == [i \in DOMAIN ports |-> introut[ports[i]]]
           lines == [i \in DOMAIN ports |-> pl_ps_irq0[ports[i]]]
<1>1. node.names = names /\ node.cells = FlattenSeq(lines)
  BY DEF DmaNode, Node
<1>2. introut["mm2s"] = "mm2s_introut" /\ introut["s2mm"] = "s2mm_introut"
  OBVIOUS
<1> HIDE DEF introut
<1>3. CASE ~has_m_axis(t)
  <2>1. ports = <<"mm2s">>
    BY <1>3
  <2>2. Len(names) = 1 /\ names[1] = "mm2s_introut" /\ Len(lines) = 1
        /\ lines[1] = pl_ps_irq0["mm2s"]
    BY <1>2, <2>1
  <2> HIDE DEF names, lines, ports
  <2>3. FlattenSeq(lines) = pl_ps_irq0["mm2s"]
    BY <2>2, FlattenOne
  <2>4. /\ Len(node.names) = 1 /\ node.names[1] = "mm2s_introut"
        /\ node.cells = pl_ps_irq0["mm2s"]
    BY <1>1, <2>2, <2>3, Zenon
  <2>5. DOMAIN by_name(node) = {"mm2s_introut"}
        /\ by_name(node)["mm2s_introut"] = pl_ps_irq0["mm2s"]
    BY <2>4, Lines, OneInterrupt, Zenon
  <2>6. Connected(t) = {"mm2s"}
    BY <1>3 DEF Connected
  <2> QED BY <2>5, <2>6 DEF InterruptName
<1>4. CASE has_m_axis(t) /\ spelling.first = "mm2s"
  <2>1. ports = <<"mm2s", "s2mm">>
    BY <1>4
  <2>2. /\ Len(names) = 2 /\ names[1] = "mm2s_introut" /\ names[2] = "s2mm_introut"
        /\ Len(lines) = 2 /\ lines[1] = pl_ps_irq0["mm2s"] /\ lines[2] = pl_ps_irq0["s2mm"]
    BY <1>2, <2>1
  <2> HIDE DEF names, lines, ports
  <2>3. FlattenSeq(lines) = pl_ps_irq0["mm2s"] \o pl_ps_irq0["s2mm"]
    <3>1. FlattenSeq(lines) = lines[1] \o lines[2]
      BY <2>2, FlattenTwo, Zenon
    <3> QED BY <2>2, <3>1
  <2>4. /\ Len(node.names) = 2 /\ node.names[1] = "mm2s_introut"
        /\ node.names[2] = "s2mm_introut"
        /\ node.cells = pl_ps_irq0["mm2s"] \o pl_ps_irq0["s2mm"]
    BY <1>1, <2>2, <2>3, Zenon
  <2>5. "mm2s_introut" # "s2mm_introut"
    OBVIOUS
  <2>6. /\ DOMAIN by_name(node) = {"mm2s_introut", "s2mm_introut"}
        /\ by_name(node)["mm2s_introut"] = pl_ps_irq0["mm2s"]
        /\ by_name(node)["s2mm_introut"] = pl_ps_irq0["s2mm"]
    <3> DEFINE x == "mm2s_introut"
               y == "s2mm_introut"
               u == pl_ps_irq0["mm2s"]
               v == pl_ps_irq0["s2mm"]
    <3>1. Names(node, x, y) /\ Cells(node, u, v)
      BY <2>4, <2>5, Lines, Zenon DEF Names, Cells
    <3> HIDE DEF x, y, u, v
    <3>2. Found(node, x, y, u, v)
      BY <3>1, TwoInterrupts, Zenon
    <3> QED BY <3>2, Zenon DEF x, y, u, v, Found
  <2>7. Connected(t) = {"mm2s", "s2mm"}
    BY <1>4 DEF Connected
  <2> QED BY <2>6, <2>7 DEF InterruptName
<1>5. CASE has_m_axis(t) /\ spelling.first # "mm2s"
  <2>1. ports = <<"s2mm", "mm2s">>
    BY <1>5
  <2>2. /\ Len(names) = 2 /\ names[1] = "s2mm_introut" /\ names[2] = "mm2s_introut"
        /\ Len(lines) = 2 /\ lines[1] = pl_ps_irq0["s2mm"] /\ lines[2] = pl_ps_irq0["mm2s"]
    BY <1>2, <2>1
  <2> HIDE DEF names, lines, ports
  <2>3. FlattenSeq(lines) = pl_ps_irq0["s2mm"] \o pl_ps_irq0["mm2s"]
    <3>1. FlattenSeq(lines) = lines[1] \o lines[2]
      BY <2>2, FlattenTwo, Zenon
    <3> QED BY <2>2, <3>1
  <2>4. /\ Len(node.names) = 2 /\ node.names[1] = "s2mm_introut"
        /\ node.names[2] = "mm2s_introut"
        /\ node.cells = pl_ps_irq0["s2mm"] \o pl_ps_irq0["mm2s"]
    BY <1>1, <2>2, <2>3, Zenon
  <2>5. "s2mm_introut" # "mm2s_introut"
    OBVIOUS
  <2>6. /\ DOMAIN by_name(node) = {"s2mm_introut", "mm2s_introut"}
        /\ by_name(node)["s2mm_introut"] = pl_ps_irq0["s2mm"]
        /\ by_name(node)["mm2s_introut"] = pl_ps_irq0["mm2s"]
    <3> DEFINE x == "s2mm_introut"
               y == "mm2s_introut"
               u == pl_ps_irq0["s2mm"]
               v == pl_ps_irq0["mm2s"]
    <3>1. Names(node, x, y) /\ Cells(node, u, v)
      BY <2>4, <2>5, Lines, Zenon DEF Names, Cells
    <3> HIDE DEF x, y, u, v
    <3>2. Found(node, x, y, u, v)
      BY <3>1, TwoInterrupts, Zenon
    <3> QED BY <3>2, Zenon DEF x, y, u, v, Found
  <2>7. Connected(t) = {"s2mm", "mm2s"}
    BY <1>5 DEF Connected
  <2> QED BY <2>6, <2>7 DEF InterruptName
<1> QED BY <1>3, <1>4, <1>5

Driven(t) == { Channel(k, pl_ps_irq0[k]) : k \in Connected(t) }

\* A node without interrupts is left as it is.
LEMMA NothingToAlign ==
    ASSUME NEW node, node.names = <<>>
    PROVE  align_channel_interrupts(node) = node
<1>1. interrupt_specs(node) = <<>>
  BY DEF interrupt_specs
<1>2. DOMAIN interrupt_specs(node) = {}
  BY <1>1
<1>3. DOMAIN by_name(node) = {}
  BY <1>2 DEF by_name
<1> QED BY <1>3 DEF align_channel_interrupts

\* The channels of the DMA are given the lines of their ports.
LEMMA DmaAligned ==
    ASSUME NEW t \in Tops, NEW spelling \in Styles
    PROVE  LET dma == align_channel_interrupts(on_gic(DmaNode(t, spelling))) IN
           dma = [label |-> "axi_dma_0", ip |-> "axi_dma", refs |-> dma.refs,
                  names |-> dma.names, cells |-> dma.cells,
                  channels |-> Driven(t), dmas |-> {}]
<1> DEFINE node == on_gic(DmaNode(t, spelling))
           chans == { Channel(k, <<0, 101, 4>>) : k \in Connected(t) }
           given == {Channel(c.kind, by_name(node)[Wanted(c)]) : c \in node.channels}
<1>1. node = [label |-> "axi_dma_0", ip |-> "axi_dma", refs |-> node.refs,
              names |-> node.names, cells |-> node.cells, channels |-> chans, dmas |-> {}]
      /\ node.names = DmaNode(t, spelling).names /\ node.cells = DmaNode(t, spelling).cells
  <2> DEFINE n == DmaNode(t, spelling).names
             l == DmaNode(t, spelling).cells
  <2>1. DmaNode(t, spelling) =
           [label |-> "axi_dma_0", ip |-> "axi_dma", refs |-> {"imux", spelling.clock},
            names |-> n, cells |-> l, channels |-> chans, dmas |-> {}]
    BY DmaFields, Zenon
  <2> HIDE DEF n, l, chans
  <2> DEFINE r == {IF x = "imux" THEN "gic" ELSE x : x \in {"imux", spelling.clock}}
  <2>2. node = [label |-> "axi_dma_0", ip |-> "axi_dma", refs |-> r,
                names |-> n, cells |-> l, channels |-> chans, dmas |-> {}]
    BY <2>1 DEF on_gic
  <2> HIDE DEF r, node
  <2> QED BY <2>2 DEF n, l
<1>2. DOMAIN by_name(node) = {InterruptName(k) : k \in Connected(t)}
      /\ \A k \in Connected(t) : by_name(node)[InterruptName(k)] = pl_ps_irq0[k]
  BY <1>1, DmaLines, Zenon
<1> HIDE DEF node
<1>3. DOMAIN by_name(node) # {}
  <2>1. "mm2s" \in Connected(t)
    BY DEF Connected
  <2> QED BY <1>2, <2>1
<1>4. given = Driven(t)
  <2>1. given = {Channel(c.kind, by_name(node)[Wanted(c)]) : c \in chans}
    BY <1>1
  <2>2. \A k \in Connected(t) :
           LET c == Channel(k, <<0, 101, 4>>)
           IN Channel(c.kind, by_name(node)[Wanted(c)]) = Channel(k, pl_ps_irq0[k])
    <3> TAKE k \in Connected(t)
    <3> DEFINE c == Channel(k, <<0, 101, 4>>)
    <3>1. c.kind = k
      BY DEF Channel
    <3>2. k = "mm2s" \/ k = "s2mm"
      BY DEF Connected
    <3> HIDE DEF c
    <3>3. Wanted(c) = InterruptName(k)
      BY <3>1, <3>2 DEF Wanted, DMA_CHANNELS, InterruptName
    <3>4. by_name(node)[Wanted(c)] = pl_ps_irq0[k]
      BY <1>2, <3>3, Zenon
    <3>5. Channel(c.kind, by_name(node)[Wanted(c)]) = Channel(k, pl_ps_irq0[k])
      BY <3>1, <3>4, Zenon
    <3> QED BY <3>5 DEF c
  <2> QED BY <2>1, <2>2 DEF Driven
<1>5. align_channel_interrupts(node) = [node EXCEPT !.channels = given]
  BY <1>3 DEF align_channel_interrupts
<1> HIDE DEF given
<1>6. align_channel_interrupts(node) =
         [label |-> "axi_dma_0", ip |-> "axi_dma", refs |-> node.refs,
          names |-> node.names, cells |-> node.cells, channels |-> Driven(t), dmas |-> {}]
  BY <1>1, <1>4, <1>5
<1> DEFINE aligned == align_channel_interrupts(node)
<1> HIDE DEF aligned
<1>7. aligned = [label |-> "axi_dma_0", ip |-> "axi_dma", refs |-> aligned.refs,
                 names |-> aligned.names, cells |-> aligned.cells,
                 channels |-> Driven(t), dmas |-> {}]
  BY <1>6 DEF aligned
<1> QED BY <1>7 DEF aligned, node

\* What an aligned node of a design of t may be.
IsAccel(a, t) == a = Node("accel", t, a.refs)
IsClock(a) == a = Node("misc_clk_0", "", a.refs)
IsDma(a, t) == a = [label |-> "axi_dma_0", ip |-> "axi_dma", refs |-> a.refs,
                      names |-> a.names, cells |-> a.cells,
                      channels |-> Driven(t), dmas |-> {}]

\* A node that is not the DMA keeps its fields, references to the proxy apart.
LEMMA PlainAligned ==
    ASSUME NEW label, NEW ip, NEW refs
    PROVE  LET a == align_channel_interrupts(on_gic(Node(label, ip, refs)))
           IN a = Node(label, ip, a.refs)
<1> DEFINE r == {IF x = "imux" THEN "gic" ELSE x : x \in refs}
<1>1. on_gic(Node(label, ip, refs)) = Node(label, ip, r)
  <2>1. Node(label, ip, refs).refs = refs
    BY DEF Node
  <2> DEFINE n == Node(label, ip, refs)
  <2>2. on_gic(n) = [n EXCEPT !.refs = r]
    BY <2>1 DEF on_gic
  <2> HIDE DEF r
  <2> QED BY <2>2 DEF Node
<1> HIDE DEF r
<1>2. Node(label, ip, r).names = <<>> /\ Node(label, ip, r).refs = r
  BY DEF Node
<1>3. align_channel_interrupts(Node(label, ip, r)) = Node(label, ip, r)
  BY <1>2, NothingToAlign
<1> QED BY <1>1, <1>2, <1>3, Zenon

\* The nodes that overlay.py goes on with: the accelerator, the DMA, perhaps a clock.
LEMMA AlignedTree ==
    ASSUME NEW t \in Tops, NEW spelling \in Styles
    PROVE  LET nodes == Aligned(amba_pl(t, spelling)) IN
           /\ \A a \in nodes : IsAccel(a, t) \/ IsClock(a) \/ IsDma(a, t)
           /\ \E a \in nodes : IsAccel(a, t)
           /\ \E a \in nodes : IsDma(a, t)
<1> DEFINE tree == amba_pl(t, spelling)
           acc == Node("accel", t, {spelling.clock})
           dma == DmaNode(t, spelling)
           clk == Node("misc_clk_0", "", {})
           after(b) == align_channel_interrupts(on_gic(b))
<1>1. tree \subseteq {acc, dma, clk} /\ acc \in tree /\ dma \in tree
  BY DEF amba_pl
<1>2. IsAccel(after(acc), t)
  BY PlainAligned, Zenon DEF IsAccel
<1>3. IsClock(after(clk))
  BY PlainAligned, Zenon DEF IsClock
<1>4. IsDma(after(dma), t)
  BY DmaAligned, Zenon DEF IsDma
<1>5. Aligned(tree) = {after(b) : b \in tree}
  BY DEF Aligned
<1> HIDE DEF tree, acc, dma, clk, after
<1> SUFFICES /\ \A a \in Aligned(tree) : IsAccel(a, t) \/ IsClock(a) \/ IsDma(a, t)
             /\ \E a \in Aligned(tree) : IsAccel(a, t)
             /\ \E a \in Aligned(tree) : IsDma(a, t)
  BY DEF tree
<1>6. \A a \in Aligned(tree) : IsAccel(a, t) \/ IsClock(a) \/ IsDma(a, t)
  BY <1>1, <1>2, <1>3, <1>4, <1>5
<1>7. after(acc) \in Aligned(tree) /\ after(dma) \in Aligned(tree)
  BY <1>1, <1>5
<1> QED BY <1>2, <1>4, <1>6, <1>7

\* The fields of each.
LEMMA NodeFields ==
    ASSUME NEW a, NEW t
    PROVE  /\ IsAccel(a, t) => a.ip = t /\ a.channels = {} /\ "channels" \in DOMAIN a
           /\ IsClock(a) => a.ip = "" /\ a.channels = {} /\ "channels" \in DOMAIN a
           /\ IsDma(a, t) => /\ a.ip = "axi_dma" /\ a.channels = Driven(t)
                               /\ "channels" \in DOMAIN a
<1> DEFINE r == a.refs
           n == a.names
           l == a.cells
           chans == Driven(t)
<1>1. ASSUME IsAccel(a, t)
      PROVE  a.ip = t /\ a.channels = {} /\ "channels" \in DOMAIN a
  <2>1. a = Node("accel", t, r)
    BY <1>1 DEF IsAccel
  <2> HIDE DEF r
  <2> QED BY <2>1 DEF Node
<1>2. ASSUME IsClock(a)
      PROVE  a.ip = "" /\ a.channels = {} /\ "channels" \in DOMAIN a
  <2>1. a = Node("misc_clk_0", "", r)
    BY <1>2 DEF IsClock
  <2> HIDE DEF r
  <2> QED BY <2>1 DEF Node
<1>3. ASSUME IsDma(a, t)
      PROVE  a.ip = "axi_dma" /\ a.channels = chans /\ "channels" \in DOMAIN a
  <2>1. a = [label |-> "axi_dma_0", ip |-> "axi_dma", refs |-> r, names |-> n, cells |-> l,
             channels |-> chans, dmas |-> {}]
    BY <1>3, Zenon DEF IsDma
  <2> HIDE DEF r, n, l, chans
  <2> QED BY <2>1
<1> QED BY <1>1, <1>2, <1>3, Zenon

\* overlay.py 160-177: what it accepts is a design of the accelerator it was asked for.
LEMMA AcceptedTop ==
    ASSUME NEW s \in Tops, NEW spelling \in Styles, NEW t \in Tops,
           ~Refuses(amba_pl(s, spelling), t)
    PROVE  s = t
<1> DEFINE nodes == Aligned(amba_pl(s, spelling))
<1>1. /\ \A a \in nodes : IsAccel(a, s) \/ IsClock(a) \/ IsDma(a, s)
      /\ \E a \in nodes : IsDma(a, s)
  BY AlignedTree, Zenon
<1>2. ~LinkRefuses(nodes, t)
  BY Zenon DEF Refuses
<1> HIDE DEF nodes
<1>3. dmas(nodes) # {}
  <2>1. PICK a \in nodes : IsDma(a, s)
    BY <1>1
  <2>2. a.ip = "axi_dma"
    BY <2>1 DEF IsDma
  <2> QED BY <2>2 DEF dmas
<1>4. Cardinality(clients(nodes, t)) = 1
  BY <1>2, <1>3 DEF LinkRefuses
<1>5. clients(nodes, t) # {}
  BY <1>4, FS_EmptySet
<1>6. PICK b \in nodes : b.ip = t
  BY <1>5 DEF clients
<1>7. b.ip = s \/ b.ip = "" \/ b.ip = "axi_dma"
  BY <1>1, NodeFields, Zenon
<1> QED BY <1>6, <1>7, TopModules

\* Linking changes the references and the DMA of the client, and nothing else.
LEMMA LinkedNodes ==
    ASSUME NEW nodes, NEW t, NEW b \in link_dma_client(nodes, t)
    PROVE  \E a \in nodes :
              \/ b = a
              \/ b = [a EXCEPT !.refs = @ \cup {d.label : d \in dmas(nodes)},
                               !.dmas = UNION {channels(d) : d \in dmas(nodes)}]
BY DEF link_dma_client

\* The channels of what is packaged are those of the design, on the lines of its ports.
LEMMA OverlaidChannels ==
    ASSUME NEW s \in Tops, NEW spelling \in Styles, NEW t \in Tops,
           NEW b \in Overlaid(amba_pl(s, spelling), t), NEW c \in b.channels
    PROVE  c.interrupts = pl_ps_irq0[c.kind]
<1> DEFINE nodes == Aligned(amba_pl(s, spelling))
<1>1. \A a \in nodes : IsAccel(a, s) \/ IsClock(a) \/ IsDma(a, s)
  BY AlignedTree, Zenon
<1>2. b \in link_dma_client(nodes, t)
  BY DEF Overlaid
<1> HIDE DEF nodes
<1>3. PICK a \in nodes :
         \/ b = a
         \/ b = [a EXCEPT !.refs = @ \cup {d.label : d \in dmas(nodes)},
                          !.dmas = UNION {channels(d) : d \in dmas(nodes)}]
  BY <1>2, LinkedNodes, Zenon
<1>4. (a.channels = {} \/ a.channels = Driven(s)) /\ "channels" \in DOMAIN a
  BY <1>1, NodeFields, Zenon
<1>5. b.channels = a.channels
  BY <1>3, <1>4
<1>6. PICK k \in Connected(s) : c = Channel(k, pl_ps_irq0[k])
  BY <1>4, <1>5 DEF Driven
<1> QED BY <1>6 DEF Channel

\* The client of a design of its own names the channels its DMA has.
LEMMA OverlaidClient ==
    ASSUME NEW t \in Tops, NEW spelling \in Styles
    PROVE  \E b \in Overlaid(amba_pl(t, spelling), t) :
              /\ b.ip = t
              /\ {d.name : d \in b.dmas} = IF t \in Duplex THEN {"tx", "rx"} ELSE {"tx"}
<1> DEFINE nodes == Aligned(amba_pl(t, spelling))
           labels == {d.label : d \in dmas(nodes)}
           chans == UNION {channels(d) : d \in dmas(nodes)}
           Linked(b) == [b EXCEPT !.refs = @ \cup labels, !.dmas = chans]
<1>1. /\ \A a \in nodes : IsAccel(a, t) \/ IsClock(a) \/ IsDma(a, t)
      /\ \E a \in nodes : IsAccel(a, t)
      /\ \E a \in nodes : IsDma(a, t)
  BY AlignedTree, Zenon
<1>2. Overlaid(amba_pl(t, spelling), t)
         = {IF b \in clients(nodes, t) THEN Linked(b) ELSE b : b \in nodes}
  BY DEF Overlaid, link_dma_client
<1>3. PICK a \in nodes : IsAccel(a, t)
  BY <1>1, Zenon
<1> DEFINE linked == Linked(a)
<1> HIDE DEF nodes, labels, chans
<1>4. a \in clients(nodes, t)
  BY <1>3 DEF IsAccel, Node, clients
<1>5. linked \in Overlaid(amba_pl(t, spelling), t)
  BY <1>2, <1>4
<1>6. linked.ip = t /\ linked.dmas = chans
  BY <1>3 DEF IsAccel, Node
<1>7. \A d \in dmas(nodes) : d.channels = Driven(t)
  <2> SUFFICES ASSUME NEW d \in dmas(nodes) PROVE d.channels = Driven(t)
    OBVIOUS
  <2>1. d \in nodes /\ d.ip = "axi_dma"
    BY DEF dmas
  <2>2. t # "axi_dma" /\ "" # "axi_dma"
    BY TopModules
  <2>3. ~IsAccel(d, t) /\ ~IsClock(d)
    BY <2>1, <2>2, NodeFields, Zenon
  <2>4. IsDma(d, t)
    BY <1>1, <2>1, <2>3, Zenon
  <2> QED BY <2>4, NodeFields, Zenon
<1>8. dmas(nodes) # {}
  <2>1. PICK d \in nodes : IsDma(d, t)
    BY <1>1, Zenon
  <2>2. d.ip = "axi_dma"
    BY <2>1, NodeFields, Zenon
  <2> QED BY <2>2 DEF dmas
<1>9. chans = {DMA_CHANNELS[k] : k \in Connected(t)}
  <2>1. {DMA_CHANNELS[c.kind] : c \in Driven(t)} = {DMA_CHANNELS[k] : k \in Connected(t)}
    <3>1. \A k \in Connected(t) : Channel(k, pl_ps_irq0[k]).kind = k
      BY DEF Channel
    <3> QED BY <3>1 DEF Driven
  <2>2. \A d \in dmas(nodes) : channels(d) = {DMA_CHANNELS[k] : k \in Connected(t)}
    BY <1>7, <2>1 DEF channels
  <2> HIDE DEF linked
  <2> QED BY <1>8, <2>2 DEF chans
<1>10. {d.name : d \in chans} = IF t \in Duplex THEN {"tx", "rx"} ELSE {"tx"}
  BY <1>9 DEF Connected, has_m_axis, DMA_CHANNELS
<1> HIDE DEF linked
<1> QED BY <1>5, <1>6, <1>10

\* Nothing is written while a label stays unresolved.
LEMMA OverlaidReferences ==
    ASSUME NEW tree, NEW t, ~Refuses(tree, t), NEW b \in Overlaid(tree, t)
    PROVE  b.refs \subseteq Exported \cup {a.label : a \in Overlaid(tree, t)}
<1> DEFINE nodes == Overlaid(tree, t)
<1>1. unresolved(nodes) = {}
  BY Zenon DEF Refuses
<1>2. b \in nodes
  OBVIOUS
<1> HIDE DEF nodes
<1>3. b.refs \subseteq RESOLVABLE \cup {a.label : a \in nodes}
  BY <1>1, <1>2 DEF unresolved
<1>4. RESOLVABLE = Exported
  BY DEF RESOLVABLE, Exported
<1> QED BY <1>3, <1>4 DEF nodes

-----------------------------------------------------------------------------
(* The inductive invariant                                                 *)

\* Which step may follow which in a command.
Succession ==
    {<<"create", "route">>, <<"route", "checkpoint">>, <<"checkpoint", "bitstream">>,
     <<"export", "validate">>,
     <<"components", "sdt_remove">>, <<"sdt_remove", "sdt_copy">>,
     <<"bin", "dtso">>, <<"dtso", "dtbo">>, <<"dtbo", "shell">>}

StepNames == {"create", "route", "checkpoint", "bitstream", "export", "validate",
              "components", "sdt_remove", "sdt_copy", "bin", "dtso", "dtbo", "shell"}

InOrder(steps) ==
    /\ steps \in Seq(StepNames)
    /\ \A i \in 1 .. Len(steps) - 1 : <<steps[i], steps[i+1]>> \in Succession

\* The steps a command has left follow one another.
StepOrder == InOrder(todo)

Registers ==
    /\ style \in Styles /\ top \in Tops /\ builds \in 0 .. MAX_BUILDS
    /\ {prj, dcp, bit, xsa, sdt} \subseteq Artefact
    /\ done \in BOOLEAN
    /\ package \in [Tops -> [bin : Artefact, dtso : Artefact, dtbo : Artefact]]

\* A step is about to run.
At(name) == todo # <<>> /\ Head(todo) = name

\* What a step finds when its turn comes: what it reads is there, and an overlay
\* command's package holds what its earlier steps wrote from what is there still.
Ready ==
    /\ At("create") => builds < MAX_BUILDS
    /\ At("route") => prj # None
    /\ At("checkpoint") => prj # None /\ prj \in routed
    /\ At("bitstream") => dcp # None
    /\ At("export") => prj # None
    /\ At("components") \/ At("sdt_remove") \/ At("sdt_copy") => xsa # None
    /\ At("bin") \/ At("dtso") \/ At("dtbo") \/ At("shell") => bit # None /\ sdt # None
    /\ At("dtso") \/ At("dtbo") \/ At("shell") => package[top].bin = bit
    /\ At("dtbo") => package[top].dtso = sdt
    /\ At("shell") => package[top].dtbo = sdt

\* Finished runs are of a routed design.
RunsAreRouted == done => prj \in routed

\* What counts as made is of the project there is; the device tree may be gone.
MadeIsOfProject ==
    /\ "impl" \in made => dcp = prj
    /\ "bitstream" \in made => bit = prj
    /\ "xsa" \in made => xsa = prj
    /\ "boot" \in made => sdt \in {prj, None}

\* Every packaged tree was accepted for the accelerator it is packaged for.
PackagesWereAccepted ==
    \A t \in Tops :
        /\ package[t].dtso # None => ~Refuses(amba_pl(package[t].dtso.top, style), t)
        /\ package[t].dtbo # None => ~Refuses(amba_pl(package[t].dtbo.top, style), t)

FlowInv ==
    /\ Registers
    /\ StepOrder
    /\ Ready
    /\ RunsAreRouted
    /\ OnlyRoutedDesigns
    /\ MadeIsOfProject
    /\ PackagesWereAccepted

-----------------------------------------------------------------------------
(* Steps                                                                   *)

\* A step leaves the steps after it, and the next is one that may follow it.
LEMMA StepAdvances ==
    ASSUME StepOrder, NEW name \in StepNames, Step(name)
    PROVE  /\ StepOrder'
           /\ \A n : At(n)' => <<name, n>> \in Succession
<1>1. /\ todo \in Seq(StepNames) /\ todo # <<>> /\ Head(todo) = name /\ todo' = Tail(todo)
      /\ \A i \in 1 .. Len(todo) - 1 : <<todo[i], todo[i+1]>> \in Succession
  BY DEF Step, StepOrder, InOrder
<1>2. /\ Tail(todo) \in Seq(StepNames) /\ Len(Tail(todo)) = Len(todo) - 1
      /\ \A i \in 1 .. Len(todo) - 1 : Tail(todo)[i] = todo[i+1]
  BY <1>1, HeadTailProperties
<1>3. Len(todo) \in Nat /\ Len(todo) >= 1 /\ todo[1] = name
  <2>1. Len(todo) \in Nat /\ Len(Tail(todo)) \in Nat
    BY <1>1, <1>2
  <2>2. Len(todo) >= 1
    BY <1>2, <2>1
  <2>3. todo[1] = name
    BY <1>1, <2>1, <2>2
  <2> QED BY <2>1, <2>2, <2>3
<1>4. StepOrder'
  <2>1. \A i \in 1 .. Len(todo) - 2 : <<Tail(todo)[i], Tail(todo)[i+1]>> \in Succession
    <3> SUFFICES ASSUME NEW i \in 1 .. Len(todo) - 2
                 PROVE  <<Tail(todo)[i], Tail(todo)[i+1]>> \in Succession
      OBVIOUS
    <3>1. i \in 1 .. Len(todo) - 1 /\ i+1 \in 1 .. Len(todo) - 1
      BY <1>3
    <3>2. Tail(todo)[i] = todo[i+1] /\ Tail(todo)[i+1] = todo[(i+1)+1]
      BY <1>2, <3>1
    <3>3. <<todo[i+1], todo[(i+1)+1]>> \in Succession
      BY <1>1, <3>1
    <3> QED BY <3>2, <3>3
  <2>2. Len(Tail(todo)) - 1 = Len(todo) - 2
    BY <1>2, <1>3
  <2> QED BY <1>1, <1>2, <2>1, <2>2 DEF StepOrder, InOrder
<1>5. ASSUME NEW n, At(n)' PROVE <<name, n>> \in Succession
  <2>1. Tail(todo) # <<>> /\ Head(Tail(todo)) = n
    BY <1>1, <1>5 DEF At
  <2>2. Len(todo) >= 2
    BY <1>2, <1>3, <2>1
  <2>3. 1 \in 1 .. Len(todo) - 1 /\ Head(Tail(todo)) = Tail(todo)[1]
    BY <1>2, <1>3, <2>2
  <2>4. n = todo[1+1]
    BY <1>2, <2>1, <2>3
  <2> QED BY <1>1, <1>3, <2>3, <2>4
<1> QED BY <1>4, <1>5

\* A command that stops has no step left to be out of order.
LEMMA StopOrder == ASSUME todo' = <<>> PROVE StepOrder' /\ \A n : ~At(n)'
BY DEF StepOrder, InOrder, At

-----------------------------------------------------------------------------
(* The parts of the invariant                                              *)

\* The variables the parts below read stay as they are.
LEMMA SameArtefacts ==
    ASSUME FlowInv, UNCHANGED <<style, builds, artefacts, made, routed>>, top' \in Tops,
           StepOrder', Ready'
    PROVE  FlowInv'
<1>1. /\ style' = style /\ builds' = builds /\ prj' = prj /\ done' = done /\ dcp' = dcp
      /\ bit' = bit /\ xsa' = xsa /\ sdt' = sdt /\ package' = package
      /\ made' = made /\ routed' = routed
  BY DEF artefacts
<1>2. Registers'
  BY <1>1 DEF FlowInv, Registers, Artefact, Builds
<1>3. RunsAreRouted' /\ OnlyRoutedDesigns' /\ MadeIsOfProject'
  BY <1>1 DEF FlowInv, RunsAreRouted, OnlyRoutedDesigns, MadeIsOfProject
<1>4. PackagesWereAccepted'
  BY <1>1 DEF FlowInv, PackagesWereAccepted
<1> QED BY <1>2, <1>3, <1>4 DEF FlowInv

\* A chain of steps, each of which may follow the one before it, is in order.
LEMMA ChainOfOne == ASSUME NEW a \in StepNames PROVE InOrder(<<a>>)
BY DEF InOrder

\* Two.
LEMMA ChainOfTwo ==
    ASSUME NEW a \in StepNames, NEW b \in StepNames, <<a, b>> \in Succession
    PROVE  InOrder(<<a, b>>)
<1> DEFINE s == <<a, b>>
<1>1. s \in Seq(StepNames) /\ Len(s) = 2 /\ s[1] = a /\ s[2] = b
  OBVIOUS
<1> HIDE DEF s
<1>2. \A i \in 1 .. Len(s) - 1 : i = 1
  BY <1>1
<1>3. InOrder(s)
  BY <1>1, <1>2 DEF InOrder
<1> QED BY <1>3 DEF s

\* Three.
LEMMA ChainOfThree ==
    ASSUME NEW a \in StepNames, NEW b \in StepNames, NEW c \in StepNames,
           <<a, b>> \in Succession, <<b, c>> \in Succession
    PROVE  InOrder(<<a, b, c>>)
<1> DEFINE s == <<a, b, c>>
<1>1. s \in Seq(StepNames) /\ Len(s) = 3 /\ s[1] = a /\ s[2] = b /\ s[3] = c
  OBVIOUS
<1> HIDE DEF s
<1>2. \A i \in 1 .. Len(s) - 1 : i = 1 \/ i = 2
  BY <1>1
<1>3. <<s[1], s[1+1]>> \in Succession /\ <<s[2], s[2+1]>> \in Succession
  BY <1>1
<1>4. InOrder(s)
  BY <1>1, <1>2, <1>3 DEF InOrder
<1> QED BY <1>4 DEF s

\* Four.
LEMMA ChainOfFour ==
    ASSUME NEW a \in StepNames, NEW b \in StepNames, NEW c \in StepNames, NEW d \in StepNames,
           <<a, b>> \in Succession, <<b, c>> \in Succession, <<c, d>> \in Succession
    PROVE  InOrder(<<a, b, c, d>>)
<1> DEFINE s == <<a, b, c, d>>
<1>1. /\ s \in Seq(StepNames) /\ Len(s) = 4
      /\ s[1] = a /\ s[2] = b /\ s[3] = c /\ s[4] = d
  OBVIOUS
<1> HIDE DEF s
<1>2. \A i \in 1 .. Len(s) - 1 : i = 1 \/ i = 2 \/ i = 3
  BY <1>1
<1>3. /\ <<s[1], s[1+1]>> \in Succession /\ <<s[2], s[2+1]>> \in Succession
      /\ <<s[3], s[3+1]>> \in Succession
  BY <1>1
<1>4. InOrder(s)
  BY <1>1, <1>2, <1>3 DEF InOrder
<1> QED BY <1>4 DEF s

\* One more step at the end.
LEMMA FourIsThreeAndOne ==
    ASSUME NEW a \in StepNames, NEW b \in StepNames, NEW c \in StepNames, NEW d \in StepNames
    PROVE  <<a, b, c>> \o <<d>> = <<a, b, c, d>>
<1> DEFINE s == <<a, b, c>>
           t == <<d>>
           u == <<a, b, c, d>>
<1>1. /\ s \in Seq(StepNames) /\ Len(s) = 3 /\ s[1] = a /\ s[2] = b /\ s[3] = c
      /\ t \in Seq(StepNames) /\ Len(t) = 1 /\ t[1] = d
      /\ u \in Seq(StepNames) /\ Len(u) = 4
      /\ u[1] = a /\ u[2] = b /\ u[3] = c /\ u[4] = d
  OBVIOUS
<1> HIDE DEF s, t, u
<1>2. /\ s \o t \in Seq(StepNames) /\ Len(s \o t) = 4
      /\ \A i \in 1 .. 4 : (s \o t)[i] = IF i <= 3 THEN s[i] ELSE t[i-3]
  <2>1. /\ s \o t \in Seq(StepNames) /\ Len(s \o t) = Len(s) + Len(t)
        /\ \A i \in 1 .. Len(s) + Len(t) :
              (s \o t)[i] = IF i <= Len(s) THEN s[i] ELSE t[i - Len(s)]
    BY <1>1, ConcatProperties, Zenon
  <2>2. Len(s) + Len(t) = 4
    BY <1>1
  <2> QED BY <1>1, <2>1, <2>2, Zenon
<1>3. \A i \in 1 .. 4 : (s \o t)[i] = u[i]
  <2>1. \A i \in 1 .. 4 : i = 1 \/ i = 2 \/ i = 3 \/ i = 4
    OBVIOUS
  <2> QED BY <1>1, <1>2, <2>1
<1>4. s \o t = u
  BY <1>1, <1>2, <1>3, SeqEqual
<1> QED BY <1>4 DEF s, t, u

\* Every command's steps are in order.
LEMMA CommandOrder ==
    /\ InOrder(ImplSteps) /\ InOrder(ImplSteps \o <<"bitstream">>)
    /\ ImplSteps # <<>> /\ Head(ImplSteps) = "create"
    /\ ImplSteps \o <<"bitstream">> # <<>> /\ Head(ImplSteps \o <<"bitstream">>) = "create"
    /\ InOrder(<<"bitstream">>) /\ InOrder(<<"export", "validate">>)
    /\ InOrder(<<"components", "sdt_remove", "sdt_copy">>)
    /\ InOrder(<<"bin", "dtso", "dtbo", "shell">>)
<1>1. InOrder(<<"create", "route", "checkpoint">>)
  BY ChainOfThree, Zenon DEF StepNames, Succession
<1>2. /\ InOrder(<<"create", "route", "checkpoint", "bitstream">>)
      /\ <<"create", "route", "checkpoint">> \o <<"bitstream">>
            = <<"create", "route", "checkpoint", "bitstream">>
  <2>1. /\ {"create", "route", "checkpoint", "bitstream"} \subseteq StepNames
        /\ <<"create", "route">> \in Succession /\ <<"route", "checkpoint">> \in Succession
        /\ <<"checkpoint", "bitstream">> \in Succession
    BY DEF StepNames, Succession
  <2>2. InOrder(<<"create", "route", "checkpoint", "bitstream">>)
    BY <2>1, ChainOfFour, Zenon
  <2>3. <<"create", "route", "checkpoint">> \o <<"bitstream">>
            = <<"create", "route", "checkpoint", "bitstream">>
    BY <2>1, FourIsThreeAndOne, Zenon
  <2> QED BY <2>2, <2>3
<1>3. InOrder(<<"bitstream">>)
  BY ChainOfOne, Zenon DEF StepNames
<1>4. InOrder(<<"export", "validate">>)
  BY ChainOfTwo, Zenon DEF StepNames, Succession
<1>5. InOrder(<<"components", "sdt_remove", "sdt_copy">>)
  BY ChainOfThree, Zenon DEF StepNames, Succession
<1>6. InOrder(<<"bin", "dtso", "dtbo", "shell">>)
  <2>1. /\ {"bin", "dtso", "dtbo", "shell"} \subseteq StepNames
        /\ <<"bin", "dtso">> \in Succession /\ <<"dtso", "dtbo">> \in Succession
        /\ <<"dtbo", "shell">> \in Succession
    BY DEF StepNames, Succession
  <2> QED BY <2>1, ChainOfFour, Zenon
<1>7. /\ ImplSteps # <<>> /\ Head(ImplSteps) = "create"
      /\ <<"create", "route", "checkpoint", "bitstream">> # <<>>
      /\ Head(<<"create", "route", "checkpoint", "bitstream">>) = "create"
  BY DEF ImplSteps
<1> QED BY <1>1, <1>2, <1>3, <1>4, <1>5, <1>6, <1>7, Zenon DEF ImplSteps

\* A command that starts has its first step to run.
LEMMA CommandStarts ==
    ASSUME NEW t, NEW s, NEW name, Command(t, s), InOrder(s), s # <<>>, Head(s) = name
    PROVE  StepOrder' /\ \A n : At(n)' => n = name
BY DEF Command, StepOrder, At

\* Which step comes after each.
LEMMA NextStep ==
    ASSUME NEW n
    PROVE  /\ <<"create", n>> \in Succession => n = "route"
           /\ <<"route", n>> \in Succession => n = "checkpoint"
           /\ <<"checkpoint", n>> \in Succession => n = "bitstream"
           /\ <<"bitstream", n>> \notin Succession
           /\ <<"export", n>> \in Succession => n = "validate"
           /\ <<"validate", n>> \notin Succession
           /\ <<"components", n>> \in Succession => n = "sdt_remove"
           /\ <<"sdt_remove", n>> \in Succession => n = "sdt_copy"
           /\ <<"sdt_copy", n>> \notin Succession
           /\ <<"bin", n>> \in Succession => n = "dtso"
           /\ <<"dtso", n>> \in Succession => n = "dtbo"
           /\ <<"dtbo", n>> \in Succession => n = "shell"
           /\ <<"shell", n>> \notin Succession
BY DEF Succession

-----------------------------------------------------------------------------
(* Commands                                                                *)

\* A command starts when what its first step reads is there.
LEMMA StartCommand ==
    ASSUME FlowInv, NEW t \in Tops, NEW s, NEW name, Command(t, s),
           InOrder(s), s # <<>>, Head(s) = name,
           \/ name = "create" /\ builds < MAX_BUILDS
           \/ name = "bitstream" /\ dcp # None
           \/ name = "export" /\ prj # None
           \/ name = "components" /\ xsa # None
           \/ name = "bin" /\ bit # None /\ sdt # None
    PROVE  FlowInv'
<1>1. UNCHANGED <<style, builds, artefacts, made, routed>> /\ top' = t
  BY DEF Command
<1>2. StepOrder' /\ \A n : At(n)' => n = name
  BY CommandStarts
<1>3. /\ builds' = builds /\ prj' = prj /\ dcp' = dcp
      /\ bit' = bit /\ xsa' = xsa /\ sdt' = sdt
  BY <1>1 DEF artefacts
<1>4. Ready'
  BY <1>2, <1>3 DEF Ready
<1> QED BY <1>1, <1>2, <1>4, SameArtefacts

\* Every command starts with its inputs there, or makes them first.
LEMMA Commands ==
    ASSUME FlowInv, NEW t \in Tops,
           Impl(t) \/ Bitstream(t) \/ Xsa(t) \/ Boot(t) \/ Package(t)
    PROVE  FlowInv'
<1>1. CASE Impl(t)
  BY <1>1, CommandOrder, StartCommand DEF Impl
<1>2. CASE Bitstream(t)
  <2>1. CASE dcp # None /\ Command(t, <<"bitstream">>)
    <3>1. InOrder(<<"bitstream">>) /\ <<"bitstream">> # <<>> /\ Head(<<"bitstream">>) = "bitstream"
      BY CommandOrder
    <3> QED BY <2>1, <3>1, StartCommand
  <2>2. CASE builds < MAX_BUILDS /\ Command(t, ImplSteps \o <<"bitstream">>)
    BY <2>2, CommandOrder, StartCommand
  <2> QED BY <1>2, <2>1, <2>2 DEF Bitstream
<1>3. CASE Xsa(t)
  <2> DEFINE s == <<"export", "validate">>
  <2>1. InOrder(s) /\ s # <<>> /\ Head(s) = "export"
    BY CommandOrder
  <2>2. Command(t, s) /\ prj # None
    BY <1>3 DEF Xsa
  <2> HIDE DEF s
  <2> QED BY <2>1, <2>2, StartCommand
<1>4. CASE Boot(t)
  <2> DEFINE s == <<"components", "sdt_remove", "sdt_copy">>
  <2>1. InOrder(s) /\ s # <<>> /\ Head(s) = "components"
    BY CommandOrder
  <2>2. Command(t, s) /\ xsa # None
    BY <1>4 DEF Boot
  <2> HIDE DEF s
  <2> QED BY <2>1, <2>2, StartCommand
<1>5. CASE Package(t)
  <2> DEFINE s == <<"bin", "dtso", "dtbo", "shell">>
  <2>1. InOrder(s) /\ s # <<>> /\ Head(s) = "bin"
    BY CommandOrder
  <2>2. Command(t, s) /\ bit # None /\ sdt # None
    BY <1>5 DEF Package
  <2> HIDE DEF s
  <2> QED BY <2>1, <2>2, StartCommand
<1> QED BY <1>1, <1>2, <1>3, <1>4, <1>5

\* A step that fails, or that has nothing to install, ends its command.
LEMMA Stops ==
    ASSUME FlowInv, Fail \/ NoDeviceTree
    PROVE  FlowInv'
<1>1. /\ todo' = <<>> /\ UNCHANGED <<style, builds, artefacts, made, routed>>
      /\ top' = top
  BY DEF Fail, NoDeviceTree
<1>2. StepOrder' /\ \A n : ~At(n)'
  BY <1>1, StopOrder
<1>3. Ready'
  BY <1>2 DEF Ready
<1>4. top' \in Tops
  BY <1>1 DEF FlowInv, Registers
<1> QED BY <1>1, <1>2, <1>3, <1>4, SameArtefacts

\* Steps that leave every artefact as it is.
LEMMA IdleSteps ==
    ASSUME FlowInv, ValidateHwPlatform \/ BuildComponents \/ ShellJson
    PROVE  FlowInv'
<1>1. /\ UNCHANGED <<style, builds, artefacts, made, routed>> /\ top' = top
      /\ Step("validate") \/ Step("components") \/ Step("shell")
  BY DEF ValidateHwPlatform, BuildComponents, ShellJson, Step
<1>2. {"validate", "components", "shell"} \subseteq StepNames
  BY DEF StepNames
<1>3. /\ StepOrder'
      /\ \A n : At(n)' => n = "sdt_remove" /\ At("components")
  <2>1. CASE Step("validate")
    BY <1>2, <2>1, StepAdvances, NextStep DEF FlowInv
  <2>2. CASE Step("components")
    <3>1. StepOrder' /\ \A n : At(n)' => n = "sdt_remove"
      BY <1>2, <2>2, StepAdvances, NextStep DEF FlowInv
    <3>2. At("components")
      BY <2>2 DEF Step, At
    <3> QED BY <3>1, <3>2
  <2>3. CASE Step("shell")
    BY <1>2, <2>3, StepAdvances, NextStep DEF FlowInv
  <2> QED BY <1>1, <2>1, <2>2, <2>3
<1>4. Ready'
  BY <1>1, <1>3 DEF Ready, FlowInv, artefacts
<1>5. top' \in Tops
  BY <1>1 DEF FlowInv, Registers
<1> QED BY <1>1, <1>3, <1>4, <1>5, SameArtefacts

-----------------------------------------------------------------------------
(* Steps that replace an artefact                                          *)

\* A new project: nothing counts as made of it.
LEMMA Creates == FlowInv /\ CreateProject => FlowInv'
<1> SUFFICES ASSUME FlowInv, CreateProject PROVE FlowInv'
  OBVIOUS
<1>1. /\ Step("create") /\ style' = style /\ top' = top /\ builds' = builds + 1
      /\ prj' = [top |-> top, n |-> builds + 1] /\ done' = FALSE /\ made' = {}
      /\ dcp' = dcp /\ bit' = bit /\ xsa' = xsa /\ sdt' = sdt
      /\ package' = package /\ routed' = routed
  BY DEF CreateProject, Step
<1>2. Registers /\ StepOrder /\ Ready /\ OnlyRoutedDesigns /\ PackagesWereAccepted
  BY DEF FlowInv
<1>3. builds < MAX_BUILDS
  BY <1>1, <1>2 DEF Ready, Step, At
<1>4. prj' \in Builds /\ prj' # None /\ builds' \in 0 .. MAX_BUILDS
  <2>1. builds + 1 \in 1 .. MAX_BUILDS /\ builds + 1 # 0 /\ top \in Tops
    BY <1>2, <1>3, Bound DEF Registers
  <2> QED BY <1>1, <2>1 DEF Builds, None
<1>5. Registers'
  BY <1>1, <1>2, <1>4 DEF Registers, Artefact
<1>6. StepOrder' /\ \A n : At(n)' => n = "route"
  BY <1>1, <1>2, StepAdvances, NextStep DEF StepNames
<1>7. Ready'
  BY <1>4, <1>6 DEF Ready
<1>8. RunsAreRouted' /\ OnlyRoutedDesigns' /\ MadeIsOfProject'
  BY <1>1, <1>2 DEF RunsAreRouted, OnlyRoutedDesigns, MadeIsOfProject
<1>9. PackagesWereAccepted'
  BY <1>1, <1>2 DEF PackagesWereAccepted
<1> QED BY <1>5, <1>6, <1>7, <1>8, <1>9 DEF FlowInv

\* The project's design is routed.
LEMMA Routes == FlowInv /\ Route => FlowInv'
<1> SUFFICES ASSUME FlowInv, Route PROVE FlowInv'
  OBVIOUS
<1>1. /\ Step("route") /\ style' = style /\ top' = top /\ builds' = builds
      /\ prj' = prj /\ done' = TRUE /\ made' = made
      /\ dcp' = dcp /\ bit' = bit /\ xsa' = xsa /\ sdt' = sdt
      /\ package' = package /\ routed' = routed \cup {prj}
  BY DEF Route, Step
<1>2. /\ Registers /\ StepOrder /\ Ready /\ OnlyRoutedDesigns /\ MadeIsOfProject
      /\ PackagesWereAccepted
  BY DEF FlowInv
<1>3. Registers'
  BY <1>1, <1>2 DEF Registers, Artefact
<1>4. StepOrder' /\ \A n : At(n)' => n = "checkpoint"
  BY <1>1, <1>2, StepAdvances, NextStep DEF StepNames
<1>5. prj # None
  BY <1>1, <1>2 DEF Ready, Step, At
<1>6. Ready'
  BY <1>1, <1>4, <1>5 DEF Ready
<1>7. RunsAreRouted' /\ OnlyRoutedDesigns' /\ MadeIsOfProject'
  BY <1>1, <1>2 DEF RunsAreRouted, OnlyRoutedDesigns, MadeIsOfProject
<1>8. PackagesWereAccepted'
  BY <1>1, <1>2 DEF PackagesWereAccepted
<1> QED BY <1>3, <1>4, <1>6, <1>7, <1>8 DEF FlowInv

\* The checkpoint is of the routed project: impl is made, and nothing after it.
LEMMA Checkpoints == FlowInv /\ WriteCheckpoint => FlowInv'
<1> SUFFICES ASSUME FlowInv, WriteCheckpoint PROVE FlowInv'
  OBVIOUS
<1>1. /\ Step("checkpoint") /\ style' = style /\ top' = top /\ builds' = builds
      /\ prj' = prj /\ done' = done /\ made' = {"impl"}
      /\ dcp' = prj /\ bit' = bit /\ xsa' = xsa /\ sdt' = sdt
      /\ package' = package /\ routed' = routed
  BY DEF WriteCheckpoint, Step
<1>2. /\ Registers /\ StepOrder /\ Ready /\ RunsAreRouted /\ OnlyRoutedDesigns
      /\ PackagesWereAccepted
  BY DEF FlowInv
<1>3. Registers'
  BY <1>1, <1>2 DEF Registers, Artefact
<1>4. StepOrder' /\ \A n : At(n)' => n = "bitstream"
  BY <1>1, <1>2, StepAdvances, NextStep DEF StepNames
<1>5. prj # None /\ prj \in routed
  BY <1>1, <1>2 DEF Ready, Step, At
<1>6. Ready'
  BY <1>1, <1>4, <1>5 DEF Ready
<1>7. RunsAreRouted' /\ OnlyRoutedDesigns' /\ MadeIsOfProject'
  BY <1>1, <1>2, <1>5 DEF RunsAreRouted, OnlyRoutedDesigns, MadeIsOfProject
<1>8. PackagesWereAccepted'
  BY <1>1, <1>2 DEF PackagesWereAccepted
<1> QED BY <1>3, <1>4, <1>6, <1>7, <1>8 DEF FlowInv

\* The bitstream is of the checkpoint.
LEMMA Bitstreams == FlowInv /\ WriteBitstream => FlowInv'
<1> SUFFICES ASSUME FlowInv, WriteBitstream PROVE FlowInv'
  OBVIOUS
<1>1. /\ Step("bitstream") /\ style' = style /\ top' = top /\ builds' = builds
      /\ prj' = prj /\ done' = done
      /\ dcp' = dcp /\ bit' = dcp /\ xsa' = xsa /\ sdt' = sdt
      /\ package' = package /\ routed' = routed
  BY DEF WriteBitstream, Step
<1>2. /\ Registers /\ StepOrder /\ RunsAreRouted /\ OnlyRoutedDesigns /\ MadeIsOfProject
      /\ PackagesWereAccepted
  BY DEF FlowInv
<1>3. made' = (IF "impl" \in made THEN made \cup {"bitstream"} ELSE made \ {"bitstream"}) \ {}
  BY DEF WriteBitstream, Make
<1>4. Registers'
  BY <1>1, <1>2 DEF Registers, Artefact
<1>5. StepOrder' /\ \A n : ~At(n)'
  BY <1>1, <1>2, StepAdvances, NextStep DEF StepNames
<1>6. Ready'
  BY <1>5 DEF Ready
<1>7. RunsAreRouted' /\ OnlyRoutedDesigns'
  BY <1>1, <1>2 DEF RunsAreRouted, OnlyRoutedDesigns
<1>8. MadeIsOfProject'
  BY <1>1, <1>2, <1>3 DEF MadeIsOfProject
<1>9. PackagesWereAccepted'
  BY <1>1, <1>2 DEF PackagesWereAccepted
<1> QED BY <1>4, <1>5, <1>6, <1>7, <1>8, <1>9 DEF FlowInv

\* The handoff is of a project whose runs are complete.
LEMMA Exports == FlowInv /\ WriteHwPlatform => FlowInv'
<1> SUFFICES ASSUME FlowInv, WriteHwPlatform PROVE FlowInv'
  OBVIOUS
<1>1. /\ Step("export") /\ done /\ style' = style /\ top' = top /\ builds' = builds
      /\ prj' = prj /\ done' = done
      /\ dcp' = dcp /\ bit' = bit /\ xsa' = prj /\ sdt' = sdt
      /\ package' = package /\ routed' = routed
  BY DEF WriteHwPlatform, Step
<1>2. /\ Registers /\ StepOrder /\ RunsAreRouted /\ OnlyRoutedDesigns /\ MadeIsOfProject
      /\ PackagesWereAccepted
  BY DEF FlowInv
<1>3. made' = (IF "impl" \in made THEN made \cup {"xsa"} ELSE made \ {"xsa"}) \ {"boot"}
  BY DEF WriteHwPlatform, Make
<1>4. Registers'
  BY <1>1, <1>2 DEF Registers, Artefact
<1>5. StepOrder' /\ \A n : At(n)' => n = "validate"
  BY <1>1, <1>2, StepAdvances, NextStep DEF StepNames
<1>6. Ready'
  BY <1>5 DEF Ready
<1>7. RunsAreRouted' /\ OnlyRoutedDesigns'
  BY <1>1, <1>2 DEF RunsAreRouted, OnlyRoutedDesigns
<1>8. MadeIsOfProject'
  BY <1>1, <1>2, <1>3 DEF MadeIsOfProject
<1>9. PackagesWereAccepted'
  BY <1>1, <1>2 DEF PackagesWereAccepted
<1> QED BY <1>4, <1>5, <1>6, <1>7, <1>8, <1>9 DEF FlowInv

\* boot takes the old device tree away before it installs the new one.
LEMMA Removes == FlowInv /\ RemoveSdt => FlowInv'
<1> SUFFICES ASSUME FlowInv, RemoveSdt PROVE FlowInv'
  OBVIOUS
<1>1. /\ Step("sdt_remove") /\ style' = style /\ top' = top /\ builds' = builds
      /\ prj' = prj /\ done' = done /\ made' = made
      /\ dcp' = dcp /\ bit' = bit /\ xsa' = xsa /\ sdt' = None
      /\ package' = package /\ routed' = routed
  BY DEF RemoveSdt, Step
<1>2. /\ Registers /\ StepOrder /\ Ready /\ RunsAreRouted /\ OnlyRoutedDesigns
      /\ MadeIsOfProject /\ PackagesWereAccepted
  BY DEF FlowInv
<1>3. Registers'
  BY <1>1, <1>2 DEF Registers, Artefact
<1>4. StepOrder' /\ \A n : At(n)' => n = "sdt_copy"
  BY <1>1, <1>2, StepAdvances, NextStep DEF StepNames
<1>5. xsa # None
  BY <1>1, <1>2 DEF Ready, Step, At
<1>6. Ready'
  BY <1>1, <1>4, <1>5 DEF Ready
<1>7. RunsAreRouted' /\ OnlyRoutedDesigns' /\ MadeIsOfProject'
  BY <1>1, <1>2 DEF RunsAreRouted, OnlyRoutedDesigns, MadeIsOfProject
<1>8. PackagesWereAccepted'
  BY <1>1, <1>2 DEF PackagesWereAccepted
<1> QED BY <1>3, <1>4, <1>6, <1>7, <1>8 DEF FlowInv

\* The device tree is of the handoff.
LEMMA Copies == FlowInv /\ CopySdt => FlowInv'
<1> SUFFICES ASSUME FlowInv, CopySdt PROVE FlowInv'
  OBVIOUS
<1>1. /\ Step("sdt_copy") /\ style' = style /\ top' = top /\ builds' = builds
      /\ prj' = prj /\ done' = done
      /\ dcp' = dcp /\ bit' = bit /\ xsa' = xsa /\ sdt' = xsa
      /\ package' = package /\ routed' = routed
  BY DEF CopySdt, Step
<1>2. /\ Registers /\ StepOrder /\ RunsAreRouted /\ OnlyRoutedDesigns /\ MadeIsOfProject
      /\ PackagesWereAccepted
  BY DEF FlowInv
<1>3. made' = (IF "xsa" \in made THEN made \cup {"boot"} ELSE made \ {"boot"}) \ {}
  BY DEF CopySdt, Make
<1>4. Registers'
  BY <1>1, <1>2 DEF Registers, Artefact
<1>5. StepOrder' /\ \A n : ~At(n)'
  BY <1>1, <1>2, StepAdvances, NextStep DEF StepNames
<1>6. Ready'
  BY <1>5 DEF Ready
<1>7. RunsAreRouted' /\ OnlyRoutedDesigns'
  BY <1>1, <1>2 DEF RunsAreRouted, OnlyRoutedDesigns
<1>8. MadeIsOfProject'
  BY <1>1, <1>2, <1>3 DEF MadeIsOfProject
<1>9. PackagesWereAccepted'
  BY <1>1, <1>2 DEF PackagesWereAccepted
<1> QED BY <1>4, <1>5, <1>6, <1>7, <1>8, <1>9 DEF FlowInv

\* clean-synth takes everything away between commands.
LEMMA Cleans == FlowInv /\ CleanSynth => FlowInv'
<1> SUFFICES ASSUME FlowInv, CleanSynth PROVE FlowInv'
  OBVIOUS
<1>1. /\ todo = <<>> /\ todo' = todo /\ style' = style /\ top' = top /\ builds' = builds
      /\ prj' = None /\ done' = FALSE /\ made' = {}
      /\ dcp' = None /\ bit' = None /\ xsa' = None /\ sdt' = None
      /\ package' = [t \in Tops |-> Missing] /\ routed' = routed
  BY DEF CleanSynth
<1>2. Registers /\ StepOrder
  BY DEF FlowInv
<1>3. \A t \in Tops : /\ package'[t].bin = None /\ package'[t].dtso = None
                      /\ package'[t].dtbo = None
  BY <1>1 DEF Missing
<1>4. Registers'
  BY <1>1, <1>2 DEF Registers, Artefact, Missing
<1>5. StepOrder' /\ \A n : ~At(n)'
  BY <1>1, StopOrder
<1>6. Ready'
  BY <1>5 DEF Ready
<1>7. RunsAreRouted' /\ OnlyRoutedDesigns' /\ MadeIsOfProject'
  BY <1>1, <1>3 DEF RunsAreRouted, OnlyRoutedDesigns, MadeIsOfProject
<1>8. PackagesWereAccepted'
  BY <1>3 DEF PackagesWereAccepted
<1> QED BY <1>4, <1>5, <1>6, <1>7, <1>8 DEF FlowInv

-----------------------------------------------------------------------------
(* Packaging                                                               *)

\* A packaging step replaces one file of one accelerator's package.
LEMMA Packed ==
    ASSUME Registers, NEW from \in Artefact
    PROVE  /\ package' = [package EXCEPT ![top]["bin"] = from] =>
                /\ package' \in [Tops -> [bin : Artefact, dtso : Artefact, dtbo : Artefact]]
                /\ \A t \in Tops :
                     /\ package'[t].bin = IF t = top THEN from ELSE package[t].bin
                     /\ package'[t].dtso = package[t].dtso
                     /\ package'[t].dtbo = package[t].dtbo
           /\ package' = [package EXCEPT ![top]["dtso"] = from] =>
                /\ package' \in [Tops -> [bin : Artefact, dtso : Artefact, dtbo : Artefact]]
                /\ \A t \in Tops :
                     /\ package'[t].bin = package[t].bin
                     /\ package'[t].dtso = IF t = top THEN from ELSE package[t].dtso
                     /\ package'[t].dtbo = package[t].dtbo
           /\ package' = [package EXCEPT ![top]["dtbo"] = from] =>
                /\ package' \in [Tops -> [bin : Artefact, dtso : Artefact, dtbo : Artefact]]
                /\ \A t \in Tops :
                     /\ package'[t].bin = package[t].bin
                     /\ package'[t].dtso = package[t].dtso
                     /\ package'[t].dtbo = IF t = top THEN from ELSE package[t].dtbo
<1>1. top \in Tops /\ package \in [Tops -> [bin : Artefact, dtso : Artefact, dtbo : Artefact]]
  BY DEF Registers
<1> HIDE DEF Artefact
<1> QED BY <1>1

\* The bitstream goes into the package of the accelerator selected.
LEMMA Bootgens == FlowInv /\ Bootgen => FlowInv'
<1> SUFFICES ASSUME FlowInv, Bootgen PROVE FlowInv'
  OBVIOUS
<1>1. /\ Step("bin") /\ style' = style /\ top' = top /\ builds' = builds
      /\ prj' = prj /\ done' = done /\ made' = made
      /\ dcp' = dcp /\ bit' = bit /\ xsa' = xsa /\ sdt' = sdt /\ routed' = routed
      /\ package' = [package EXCEPT ![top]["bin"] = bit]
  BY DEF Bootgen, Packs, Step
<1>2. /\ Registers /\ StepOrder /\ Ready /\ RunsAreRouted /\ OnlyRoutedDesigns
      /\ MadeIsOfProject /\ PackagesWereAccepted /\ top \in Tops /\ bit \in Artefact
  BY DEF FlowInv, Registers
<1>3. /\ package' \in [Tops -> [bin : Artefact, dtso : Artefact, dtbo : Artefact]]
      /\ \A t \in Tops : /\ package'[t].bin = IF t = top THEN bit ELSE package[t].bin
                         /\ package'[t].dtso = package[t].dtso
                         /\ package'[t].dtbo = package[t].dtbo
  BY <1>1, <1>2, Packed
<1>4. Registers'
  BY <1>1, <1>2, <1>3 DEF Registers, Artefact
<1>5. StepOrder' /\ \A n : At(n)' => n = "dtso"
  BY <1>1, <1>2, StepAdvances, NextStep DEF StepNames
<1>6. bit # None /\ sdt # None
  BY <1>1, <1>2 DEF Ready, Step, At
<1>7. Ready'
  BY <1>1, <1>2, <1>3, <1>5, <1>6 DEF Ready
<1>8. RunsAreRouted' /\ OnlyRoutedDesigns' /\ MadeIsOfProject'
  BY <1>1, <1>2, <1>3 DEF RunsAreRouted, OnlyRoutedDesigns, MadeIsOfProject
<1>9. PackagesWereAccepted'
  BY <1>1, <1>2, <1>3 DEF PackagesWereAccepted
<1> QED BY <1>4, <1>5, <1>7, <1>8, <1>9 DEF FlowInv

\* overlay.py writes a package's source only of a tree it accepts.
LEMMA Overlays == FlowInv /\ OverlayPy => FlowInv'
<1> SUFFICES ASSUME FlowInv, OverlayPy PROVE FlowInv'
  OBVIOUS
<1>1. /\ Step("dtso") /\ style' = style /\ top' = top /\ builds' = builds
      /\ prj' = prj /\ done' = done /\ made' = made
      /\ dcp' = dcp /\ bit' = bit /\ xsa' = xsa /\ sdt' = sdt /\ routed' = routed
      /\ package' = [package EXCEPT ![top]["dtso"] = sdt]
      /\ ~Refuses(amba_pl(sdt.top, style), top)
  BY DEF OverlayPy, Packs, Step
<1>2. /\ Registers /\ StepOrder /\ Ready /\ RunsAreRouted /\ OnlyRoutedDesigns
      /\ MadeIsOfProject /\ PackagesWereAccepted /\ top \in Tops /\ sdt \in Artefact
  BY DEF FlowInv, Registers
<1>3. /\ package' \in [Tops -> [bin : Artefact, dtso : Artefact, dtbo : Artefact]]
      /\ \A t \in Tops : /\ package'[t].bin = package[t].bin
                         /\ package'[t].dtso = IF t = top THEN sdt ELSE package[t].dtso
                         /\ package'[t].dtbo = package[t].dtbo
  BY <1>1, <1>2, Packed
<1>4. Registers'
  BY <1>1, <1>2, <1>3 DEF Registers, Artefact
<1>5. StepOrder' /\ \A n : At(n)' => n = "dtbo"
  BY <1>1, <1>2, StepAdvances, NextStep DEF StepNames
<1>6. bit # None /\ sdt # None /\ package[top].bin = bit
  BY <1>1, <1>2 DEF Ready, Step, At
<1>7. Ready'
  BY <1>1, <1>2, <1>3, <1>5, <1>6 DEF Ready
<1>8. RunsAreRouted' /\ OnlyRoutedDesigns' /\ MadeIsOfProject'
  BY <1>1, <1>2, <1>3 DEF RunsAreRouted, OnlyRoutedDesigns, MadeIsOfProject
<1>9. PackagesWereAccepted'
  <2> SUFFICES ASSUME NEW t \in Tops
               PROVE  /\ package'[t].dtso # None
                           => ~Refuses(amba_pl(package'[t].dtso.top, style), t)
                      /\ package'[t].dtbo # None
                           => ~Refuses(amba_pl(package'[t].dtbo.top, style), t)
    BY <1>1 DEF PackagesWereAccepted
  <2> QED BY <1>1, <1>2, <1>3 DEF PackagesWereAccepted
<1> QED BY <1>4, <1>5, <1>7, <1>8, <1>9 DEF FlowInv

\* dtc compiles the source just written.
LEMMA Compiles == FlowInv /\ Dtc => FlowInv'
<1> SUFFICES ASSUME FlowInv, Dtc PROVE FlowInv'
  OBVIOUS
<1>1. /\ Step("dtbo") /\ style' = style /\ top' = top /\ builds' = builds
      /\ prj' = prj /\ done' = done /\ made' = made
      /\ dcp' = dcp /\ bit' = bit /\ xsa' = xsa /\ sdt' = sdt /\ routed' = routed
      /\ package' = [package EXCEPT ![top]["dtbo"] = package[top].dtso]
  BY DEF Dtc, Packs, Step
<1>2. /\ Registers /\ StepOrder /\ Ready /\ RunsAreRouted /\ OnlyRoutedDesigns
      /\ MadeIsOfProject /\ PackagesWereAccepted /\ top \in Tops
      /\ package[top].dtso \in Artefact
  BY DEF FlowInv, Registers
<1>3. /\ package' \in [Tops -> [bin : Artefact, dtso : Artefact, dtbo : Artefact]]
      /\ \A t \in Tops :
            /\ package'[t].bin = package[t].bin
            /\ package'[t].dtso = package[t].dtso
            /\ package'[t].dtbo = IF t = top THEN package[top].dtso ELSE package[t].dtbo
  BY <1>1, <1>2, Packed
<1>4. Registers'
  BY <1>1, <1>2, <1>3 DEF Registers, Artefact
<1>5. StepOrder' /\ \A n : At(n)' => n = "shell"
  BY <1>1, <1>2, StepAdvances, NextStep DEF StepNames
<1>6. bit # None /\ sdt # None /\ package[top].bin = bit /\ package[top].dtso = sdt
  BY <1>1, <1>2 DEF Ready, Step, At
<1>7. Ready'
  BY <1>1, <1>2, <1>3, <1>5, <1>6 DEF Ready
<1>8. RunsAreRouted' /\ OnlyRoutedDesigns' /\ MadeIsOfProject'
  BY <1>1, <1>2, <1>3 DEF RunsAreRouted, OnlyRoutedDesigns, MadeIsOfProject
<1>9. PackagesWereAccepted'
  <2> SUFFICES ASSUME NEW t \in Tops
               PROVE  /\ package'[t].dtso # None
                           => ~Refuses(amba_pl(package'[t].dtso.top, style), t)
                      /\ package'[t].dtbo # None
                           => ~Refuses(amba_pl(package'[t].dtbo.top, style), t)
    BY <1>1 DEF PackagesWereAccepted
  <2> QED BY <1>1, <1>2, <1>3 DEF PackagesWereAccepted
<1> QED BY <1>4, <1>5, <1>7, <1>8, <1>9 DEF FlowInv

-----------------------------------------------------------------------------
(* The flow                                                                *)

\* A build directory starts empty.
LEMMA InitFlow == Init => FlowInv
<1> SUFFICES ASSUME Init PROVE FlowInv
  OBVIOUS
<1>1. Registers
  <2>1. /\ {prj, dcp, bit, xsa, sdt} \subseteq Artefact
        /\ [t \in Tops |-> Missing]
              \in [Tops -> [bin : Artefact, dtso : Artefact, dtbo : Artefact]]
    BY DEF Init, Artefact, Missing
  <2>2. builds \in 0 .. MAX_BUILDS
    BY Bound DEF Init
  <2> QED BY <2>1, <2>2 DEF Init, Registers
<1>2. StepOrder /\ \A n : ~At(n)
  BY DEF Init, StepOrder, InOrder, At
<1>3. Ready
  BY <1>2 DEF Ready
<1>4. \A t \in Tops : /\ package[t].bin = None /\ package[t].dtso = None
                      /\ package[t].dtbo = None
  BY DEF Init, Missing
<1>5. RunsAreRouted /\ OnlyRoutedDesigns /\ MadeIsOfProject
  BY <1>4 DEF Init, RunsAreRouted, OnlyRoutedDesigns, MadeIsOfProject
<1>6. PackagesWereAccepted
  BY <1>4 DEF PackagesWereAccepted
<1> QED BY <1>1, <1>2, <1>3, <1>5, <1>6 DEF FlowInv

\* The invariant is inductive.
LEMMA NextFlow == FlowInv /\ [Next]_vars => FlowInv'
<1> SUFFICES ASSUME FlowInv, [Next]_vars PROVE FlowInv'
  OBVIOUS
<1>1. ASSUME NEW t \in Tops, Impl(t) \/ Bitstream(t) \/ Xsa(t) \/ Boot(t) \/ Package(t)
      PROVE  FlowInv'
  BY <1>1, Commands
<1>2. CASE CleanSynth \/ CreateProject \/ Route \/ WriteCheckpoint \/ WriteBitstream
  BY <1>2, Cleans, Creates, Routes, Checkpoints, Bitstreams
<1>3. CASE WriteHwPlatform \/ RemoveSdt \/ CopySdt
  BY <1>3, Exports, Removes, Copies
<1>4. CASE Bootgen \/ OverlayPy \/ Dtc
  BY <1>4, Bootgens, Overlays, Compiles
<1>5. CASE Fail \/ NoDeviceTree
  BY <1>5, Stops
<1>6. CASE ValidateHwPlatform \/ BuildComponents \/ ShellJson
  BY <1>6, IdleSteps
<1>7. CASE UNCHANGED vars
  <2>1. UNCHANGED <<style, builds, artefacts, made, routed>> /\ todo' = todo /\ top' = top
    BY <1>7 DEF vars
  <2>2. top' \in Tops /\ StepOrder'
    BY <2>1 DEF FlowInv, Registers, StepOrder
  <2>3. \A n : At(n)' <=> At(n)
    BY <2>1 DEF At
  <2>4. Ready'
    BY <2>1, <2>3 DEF FlowInv, Ready, artefacts
  <2> QED BY <2>1, <2>2, <2>4, SameArtefacts
<1> QED BY <1>1, <1>2, <1>3, <1>4, <1>5, <1>6, <1>7 DEF Next

\* What is packaged is of a build.
LEMMA PackagedBuild ==
    ASSUME FlowInv, NEW t \in Tops, package[t].dtbo # None
    PROVE  package[t].dtbo.top \in Tops /\ style \in Styles
<1>1. Registers
  BY DEF FlowInv
<1>2. package[t] \in [bin : Artefact, dtso : Artefact, dtbo : Artefact]
  BY <1>1 DEF Registers
<1>3. package[t].dtbo \in Builds
  BY <1>2 DEF Artefact
<1>4. style \in Styles
  BY <1>1 DEF Registers
<1> QED BY <1>3, <1>4 DEF Builds

\* Every artefact is of some build, and what a step reads is there when it runs: no
\* order of commands, failures and reruns starts one without its inputs.
THEOREM FlowTyped == Spec => []TypeOK
<1>1. FlowInv => TypeOK
  <2> SUFFICES ASSUME FlowInv PROVE TypeOK
    OBVIOUS
  <2>1. Registers /\ Ready
    BY DEF FlowInv
  <2>2. ASSUME todo # <<>>
        PROVE  CASE Head(todo) = "bitstream"  -> dcp # None
                 [] Head(todo) = "components" -> xsa # None
                 [] Head(todo) = "bin"        -> bit # None
                 [] Head(todo) = "dtso"       -> sdt # None
                 [] OTHER -> TRUE
    <3>1. At(Head(todo))
      BY <2>2 DEF At
    <3> QED BY <2>1, <3>1, Zenon DEF Ready
  <2> QED BY <2>1, <2>2 DEF TypeOK, Registers
<1> QED BY <1>1, InitFlow, NextFlow, PTL DEF Spec

\* A checkpoint, a handoff and what is made of them are of a routed design, also
\* when impl has failed half way over an older one.
THEOREM RoutedOnly == Spec => []OnlyRoutedDesigns
<1>1. FlowInv => OnlyRoutedDesigns
  BY DEF FlowInv
<1> QED BY <1>1, InitFlow, NextFlow, PTL DEF Spec

\* Commands that succeeded in order since the latest impl package that build and
\* nothing older.
THEOREM FreshPackages == Spec => FreshFlowIsCoherent
<1> DEFINE Coherent == ShellJson /\ {"bitstream", "boot"} \subseteq made
                         => package[top].bin = prj /\ package[top].dtbo = prj
<1>1. FlowInv /\ [Next]_vars => [Coherent]_vars
  <2> SUFFICES ASSUME FlowInv, ShellJson, {"bitstream", "boot"} \subseteq made
               PROVE  package[top].bin = prj /\ package[top].dtbo = prj
    OBVIOUS
  <2>1. At("shell")
    BY DEF ShellJson, Step, At
  <2>2. package[top].bin = bit /\ package[top].dtbo = sdt /\ sdt # None
    BY <2>1 DEF FlowInv, Ready
  <2> QED BY <2>2 DEF FlowInv, MadeIsOfProject
<1> QED BY <1>1, InitFlow, NextFlow, PTL DEF Spec, FreshFlowIsCoherent

\* However selections, failures and reruns interleave, the device tree in a package is
\* of a design of the accelerator the package is named after (overlay.py 160-177).
THEOREM PackagedTree == Spec => []TreeIsTheAccelerators
<1>1. FlowInv => TreeIsTheAccelerators
  <2> SUFFICES ASSUME FlowInv, NEW t \in Tops, package[t].dtbo # None
               PROVE  package[t].dtbo.top = t
    BY DEF TreeIsTheAccelerators
  <2>1. package[t].dtbo.top \in Tops /\ style \in Styles
    BY PackagedBuild
  <2>2. ~Refuses(amba_pl(package[t].dtbo.top, style), t)
    BY DEF FlowInv, PackagesWereAccepted
  <2> QED BY <2>1, <2>2, AcceptedTop, Zenon
<1> QED BY <1>1, InitFlow, NextFlow, PTL DEF Spec

\* Every channel in a package waits for the line its port drives (overlay.py 108-116).
THEOREM PackagedChannels == Spec => []ChannelsAreDriven
<1>1. FlowInv => ChannelsAreDriven
  <2> SUFFICES ASSUME FlowInv, NEW t \in Tops, NEW b \in PackagedNodes(t), NEW c \in b.channels
               PROVE  c.interrupts = pl_ps_irq0[c.kind]
    BY DEF ChannelsAreDriven
  <2>1. package[t].dtbo # None /\ b \in Overlaid(amba_pl(package[t].dtbo.top, style), t)
    BY DEF PackagedNodes
  <2>2. package[t].dtbo.top \in Tops /\ style \in Styles
    BY <2>1, PackagedBuild
  <2> QED BY <2>1, <2>2, OverlaidChannels, Zenon
<1> QED BY <1>1, InitFlow, NextFlow, PTL DEF Spec

\* The accelerator's node in a package offers exactly the channels its driver claims.
THEOREM PackagedClient == Spec => []ClientHasItsChannels
<1>1. FlowInv => ClientHasItsChannels
  <2> SUFFICES ASSUME FlowInv, NEW t \in Tops, package[t].dtbo # None
               PROVE  \E b \in PackagedNodes(t) :
                         /\ b.ip = package[t].dtbo.top
                         /\ {d.name : d \in b.dmas} =
                               IF package[t].dtbo.top \in Duplex THEN {"tx", "rx"} ELSE {"tx"}
    BY DEF ClientHasItsChannels
  <2> DEFINE s == package[t].dtbo.top
  <2>1. s \in Tops /\ style \in Styles
    BY PackagedBuild
  <2>2. ~Refuses(amba_pl(s, style), t)
    BY DEF FlowInv, PackagesWereAccepted
  <2>3. PackagedNodes(t) = Overlaid(amba_pl(s, style), t)
    BY DEF PackagedNodes
  <2> HIDE DEF s
  <2>4. s = t
    BY <2>1, <2>2, AcceptedTop, Zenon
  <2>5. \E b \in Overlaid(amba_pl(t, style), t) :
           /\ b.ip = t
           /\ {d.name : d \in b.dmas} = IF t \in Duplex THEN {"tx", "rx"} ELSE {"tx"}
    BY <2>1, OverlaidClient, Zenon
  <2>6. \E b \in PackagedNodes(t) :
           /\ b.ip = s
           /\ {d.name : d \in b.dmas} = IF s \in Duplex THEN {"tx", "rx"} ELSE {"tx"}
    BY <2>3, <2>4, <2>5, Zenon
  <2> QED BY <2>6 DEF s
<1> QED BY <1>1, InitFlow, NextFlow, PTL DEF Spec

\* Nothing in a package refers to what neither it nor the board's own tree has.
THEOREM PackagedReferences == Spec => []ReferencesResolve
<1>1. FlowInv => ReferencesResolve
  <2> SUFFICES ASSUME FlowInv, NEW t \in Tops, NEW b \in PackagedNodes(t)
               PROVE  b.refs \subseteq Exported \cup {a.label : a \in PackagedNodes(t)}
    BY DEF ReferencesResolve
  <2> DEFINE tree == amba_pl(package[t].dtbo.top, style)
  <2>1. package[t].dtbo # None /\ PackagedNodes(t) = Overlaid(tree, t)
    BY DEF PackagedNodes
  <2>2. ~Refuses(tree, t)
    BY <2>1 DEF FlowInv, PackagesWereAccepted
  <2> HIDE DEF tree
  <2>3. b.refs \subseteq Exported \cup {a.label : a \in Overlaid(tree, t)}
    BY <2>1, <2>2, OverlaidReferences, Zenon
  <2> QED BY <2>1, <2>3, Zenon
<1> QED BY <1>1, InitFlow, NextFlow, PTL DEF Spec
=============================================================================
