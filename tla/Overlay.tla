------------------------------ MODULE Overlay ------------------------------
(***************************************************************************)
(* flows/embedded/overlay.py: from the device tree generated for a design  *)
(* to the overlay a running Linux loads, as operators; and what            *)
(* flows/embedded/bd/system.tcl puts into a design for them to find.       *)
(***************************************************************************)
EXTENDS Naturals, Sequences, FiniteSets, SequencesExt

CONSTANTS Tops,     \* top-level modules that honour the accelerator contract
          Duplex    \* those with an m_axis

\* A top-level module has a name, and not the one another node of the tree carries:
\* the clients of the DMA are found by name alone.
ASSUME TopModules == /\ Duplex \subseteq Tops
                     /\ {"", "axi_dma"} \cap Tops = {}

-----------------------------------------------------------------------------
(* The block design                                                        *)

has_m_axis(top) == top \in Duplex

\* The DMA channels a design has, and the line each port is wired to.
Connected(top) == IF has_m_axis(top) THEN {"mm2s", "s2mm"} ELSE {"mm2s"}

pl_ps_irq0 == [mm2s |-> <<0, 89, 4>>, s2mm |-> <<0, 90, 4>>]

-----------------------------------------------------------------------------
(* The generated tree: the children of amba_pl                             *)

\* How the generator may spell a tree: which interrupt it names first, and the
\* clock the nodes refer to.
Styles == [first : {"mm2s", "s2mm"}, clock : {"zynqmp_clk", "misc_clk_0", "pl_clk0"}]

\* What overlay.py reads of a channel's node: its kind, its interrupt.
Channel(kind, irq) == [kind |-> kind, interrupts |-> irq]

Node(label, ip, refs) == [label |-> label, ip |-> ip, refs |-> refs, names |-> <<>>,
                          cells |-> <<>>, channels |-> {}, dmas |-> {}]

\* The interrupts of the DMA in one flat list of cells; its channels carry the
\* numbers the generator invents, which nothing drives.
DmaNode(top, style) ==
    LET ports == IF ~has_m_axis(top) THEN <<"mm2s">>
                 ELSE IF style.first = "mm2s" THEN <<"mm2s", "s2mm">>
                 ELSE <<"s2mm", "mm2s">>
        introut == [mm2s |-> "mm2s_introut", s2mm |-> "s2mm_introut"]
    IN [Node("axi_dma_0", "axi_dma", {"imux", style.clock}) EXCEPT
          !.names = [i \in DOMAIN ports |-> introut[ports[i]]],
          !.cells = FlattenSeq([i \in DOMAIN ports |-> pl_ps_irq0[ports[i]]]),
          !.channels = { Channel(k, <<0, 101, 4>>) : k \in Connected(top) }]

amba_pl(top, style) ==
    {Node("accel", top, {style.clock}), DmaNode(top, style)}
    \cup (IF style.clock = "misc_clk_0" THEN {Node("misc_clk_0", "", {})} ELSE {})

-----------------------------------------------------------------------------
(* The overlay                                                             *)

\* Labels the booted kernel's own tree exports.
Exported == {"amba", "fpga_full", "gic", "zynqmp_clk", "zynqmp_reset"}

\* Mutant: a label the generator was once seen to emit is added.
RESOLVABLEToo == Exported \cup {"pl_clk0"}

RESOLVABLE == {"amba", "fpga_full", "gic", "zynqmp_clk", "zynqmp_reset"}

DMA_CHANNELS == [mm2s |-> [interrupt |-> "mm2s_introut", cell |-> 0, name |-> "tx"],
                 s2mm |-> [interrupt |-> "s2mm_introut", cell |-> 1, name |-> "rx"]]

\* Interrupts are parented on gic, not on the proxy of the generated tree.
on_gic(node) == [node EXCEPT !.refs = {IF r = "imux" THEN "gic" ELSE r : r \in @}]

\* One specifier per name, however the cells are grouped.
interrupt_specs(node) ==
    LET n == Len(node.names)
        width == Len(node.cells) \div n
    IN IF n = 0 \/ Len(node.cells) % n # 0 THEN <<>>
       ELSE [i \in 1 .. n |-> SubSeq(node.cells, (i - 1) * width + 1, i * width)]

by_name(node) ==
    LET specs == interrupt_specs(node)
    IN [name \in {node.names[i] : i \in DOMAIN specs} |->
          specs[CHOOSE i \in DOMAIN specs : node.names[i] = name]]

Wanted(channel) == DMA_CHANNELS[channel.kind].interrupt

AlignRefuses(node) == /\ DOMAIN by_name(node) # {}
                      /\ \E c \in node.channels : Wanted(c) \notin DOMAIN by_name(node)

\* Mutant: the channels take the interrupts in the order they are listed in.
alignInOrder(node) ==
    [node EXCEPT !.channels =
        {Channel(c.kind, interrupt_specs(node)[DMA_CHANNELS[c.kind].cell + 1]) : c \in @}]

\* Each channel takes the owning node's interrupt of its direction.
align_channel_interrupts(node) ==
    IF DOMAIN by_name(node) = {} THEN node
    ELSE [node EXCEPT !.channels = {Channel(c.kind, by_name(node)[Wanted(c)]) : c \in @}]

dmas(nodes) == {b \in nodes : b.ip = "axi_dma"}

\* Mutant: whatever is not the DMA is the accelerator.
clientsAny(nodes, top) == {b \in nodes : b.label = "accel"}

clients(nodes, top) == {b \in nodes : b.ip = top}

LinkRefuses(nodes, top) ==
    /\ dmas(nodes) \cup clients(nodes, top) # {}
    /\ \/ Cardinality(dmas(nodes)) # 1 \/ Cardinality(clients(nodes, top)) # 1
       \/ \E d \in dmas(nodes) : d.label = "" \/ d.channels = {}

\* Mutant: every kind of channel in the table, connected or not.
channelsOfTable(dma) == {DMA_CHANNELS[k] : k \in DOMAIN DMA_CHANNELS}

channels(dma) == {DMA_CHANNELS[c.kind] : c \in dma.channels}

\* The accelerator may ask for the channels the DMA has, and for no other.
link_dma_client(nodes, top) ==
    LET Linked(b) == [b EXCEPT !.refs = @ \cup {d.label : d \in dmas(nodes)},
                               !.dmas = UNION {channels(d) : d \in dmas(nodes)}]
    IN {IF b \in clients(nodes, top) THEN Linked(b) ELSE b : b \in nodes}

Aligned(tree) == {align_channel_interrupts(on_gic(b)) : b \in tree}

Overlaid(tree, top) == link_dma_client(Aligned(tree), top)

unresolved(nodes) == (UNION {b.refs : b \in nodes}) \ (RESOLVABLE \cup {b.label : b \in nodes})

\* Every way out of overlay.py that writes nothing.
Refuses(tree, top) == \/ tree = {}
                      \/ \E b \in tree : AlignRefuses(on_gic(b))
                      \/ LinkRefuses(Aligned(tree), top)
                      \/ unresolved(Overlaid(tree, top)) # {}
=============================================================================
