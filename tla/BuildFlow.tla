----------------------------- MODULE BuildFlow -----------------------------
(***************************************************************************)
(* The embedded build flow, flows/embedded/*.sh with the scripts they run: *)
(* which artefact of one board's build directory each command reads and    *)
(* which it replaces. RTL_TOP is chosen anew by every command, and any     *)
(* command may fail at any of its steps.                                   *)
(***************************************************************************)
EXTENDS Overlay

CONSTANT MAX_BUILDS     \* bound: projects created in all

ASSUME Bound == MAX_BUILDS \in Nat

None == [top |-> "none", n |-> 0]

\* A build is one creation of the project, from the top-level module selected.
Builds == [top : Tops, n : 1 .. MAX_BUILDS]

VARIABLES
    style,    \* how the generator spells device trees
    todo,     \* the steps the running command has left
    top,      \* its RTL_TOP
    builds,   \* projects created so far
    prj,      \* impl/prj
    done,     \* its runs are complete
    dcp,      \* impl/post_route.dcp
    bit,      \* impl/<board>.bit
    xsa,      \* impl/<board>.xsa
    sdt,      \* boot/sdt, the device tree sources
    package,  \* overlay/<app>, by accelerator
    made,     \* history: what has been made, in order, from the latest build
    routed    \* history: the builds that were routed

artefacts == <<prj, done, dcp, bit, xsa, sdt, package>>
vars == <<style, todo, top, builds, artefacts, made, routed>>

Missing == [bin |-> None, dtso |-> None, dtbo |-> None]

-----------------------------------------------------------------------------
(* Commands                                                                *)

Command(t, steps) == /\ todo = <<>>
                     /\ todo' = steps /\ top' = t
                     /\ UNCHANGED <<style, builds, artefacts, made, routed>>

ImplSteps == <<"create", "route", "checkpoint">>

Impl(t) == builds < MAX_BUILDS /\ Command(t, ImplSteps)

\* Only when there is no checkpoint at all does bitstream run impl.
Bitstream(t) == \/ dcp # None /\ Command(t, <<"bitstream">>)
                \/ /\ dcp = None /\ builds < MAX_BUILDS
                   /\ Command(t, ImplSteps \o <<"bitstream">>)

Xsa(t) == prj # None /\ Command(t, <<"export", "validate">>)

Boot(t) == xsa # None /\ Command(t, <<"components", "sdt_remove", "sdt_copy">>)

\* Mutant: the inputs are not looked for.
PackageUnchecked(t) == Command(t, <<"bin", "dtso", "dtbo", "shell">>)

Package(t) == bit # None /\ sdt # None /\ Command(t, <<"bin", "dtso", "dtbo", "shell">>)

CleanSynth == /\ todo = <<>>
              /\ prj' = None /\ done' = FALSE /\ dcp' = None /\ bit' = None
              /\ xsa' = None /\ sdt' = None /\ package' = [t \in Tops |-> Missing]
              /\ made' = {}
              /\ UNCHANGED <<style, todo, top, builds, routed>>

-----------------------------------------------------------------------------
(* Steps                                                                   *)

\* set -e: a step that fails is the last of its command.
Fail == /\ todo # <<>> /\ todo' = <<>>
        /\ UNCHANGED <<style, top, builds, artefacts, made, routed>>

Step(name) == /\ todo # <<>> /\ Head(todo) = name
              /\ todo' = Tail(todo)
              /\ UNCHANGED <<style, top>>

\* History: y counts as made if what it is made from does; what is older no more.
Make(x, y, older) == made' = (IF x \in made THEN made \cup {y} ELSE made \ {y}) \ older

\* impl.tcl, create_project -force: the runs of an older project go with it.
CreateProject == /\ Step("create")
                 /\ builds' = builds + 1
                 /\ prj' = [top |-> top, n |-> builds + 1] /\ done' = FALSE
                 /\ made' = {}
                 /\ UNCHANGED <<dcp, bit, xsa, sdt, package, routed>>

\* The block design, synthesis, placement and routing.
Route == /\ Step("route")
         /\ done' = TRUE /\ routed' = routed \cup {prj}
         /\ UNCHANGED <<builds, prj, dcp, bit, xsa, sdt, package, made>>

WriteCheckpoint == /\ Step("checkpoint")
                   /\ dcp' = prj
                   /\ made' = {"impl"}
                   /\ UNCHANGED <<builds, prj, done, bit, xsa, sdt, package, routed>>

\* Mutant: a bitstream that exists is kept.
WriteBitstreamOnce == /\ Step("bitstream")
                      /\ bit' = IF bit = None THEN dcp ELSE bit
                      /\ Make("impl", "bitstream", {})
                      /\ UNCHANGED <<builds, prj, done, dcp, xsa, sdt, package, routed>>

WriteBitstream == /\ Step("bitstream")
                  /\ bit' = dcp
                  /\ Make("impl", "bitstream", {})
                  /\ UNCHANGED <<builds, prj, done, dcp, xsa, sdt, package, routed>>

\* Mutant: a project will do, without its implementation.
WriteHwPlatformEarly == /\ Step("export")
                        /\ xsa' = prj
                        /\ Make("impl", "xsa", {"boot"})
                        /\ UNCHANGED <<builds, prj, done, dcp, bit, sdt, package, routed>>

\* open_run fails on a project whose runs are not complete.
WriteHwPlatform == /\ Step("export") /\ done
                   /\ xsa' = prj
                   /\ Make("impl", "xsa", {"boot"})
                   /\ UNCHANGED <<builds, prj, done, dcp, bit, sdt, package, routed>>

ValidateHwPlatform == Step("validate") /\ UNCHANGED <<builds, artefacts, made, routed>>

\* boot.py: in a workspace created afresh, from the handoff.
BuildComponents == Step("components") /\ UNCHANGED <<builds, artefacts, made, routed>>

\* No device tree came of it: a warning, and what is there stays.
NoDeviceTree == /\ todo # <<>> /\ Head(todo) = "sdt_remove" /\ todo' = <<>>
                /\ UNCHANGED <<style, top, builds, artefacts, made, routed>>

RemoveSdt == /\ Step("sdt_remove")
             /\ sdt' = None
             /\ UNCHANGED <<builds, prj, done, dcp, bit, xsa, package, made, routed>>

CopySdt == /\ Step("sdt_copy")
           /\ sdt' = xsa
           /\ Make("xsa", "boot", {})
           /\ UNCHANGED <<builds, prj, done, dcp, bit, xsa, package, routed>>

\* overlay.sh: a step that writes one file of the accelerator's package.
Packs(name, file, from) ==
    /\ Step(name)
    /\ package' = [package EXCEPT ![top][file] = from]
    /\ UNCHANGED <<builds, prj, done, dcp, bit, xsa, sdt, made, routed>>

Bootgen == Packs("bin", "bin", bit)

OverlayPy == ~Refuses(amba_pl(sdt.top, style), top) /\ Packs("dtso", "dtso", sdt)

Dtc == Packs("dtbo", "dtbo", package[top].dtso)

\* shell.json, and the command ends well.
ShellJson == Step("shell") /\ UNCHANGED <<builds, artefacts, made, routed>>

-----------------------------------------------------------------------------
Init == /\ style \in Styles
        /\ todo = <<>> /\ top \in Tops /\ builds = 0
        /\ prj = None /\ done = FALSE /\ dcp = None /\ bit = None
        /\ xsa = None /\ sdt = None /\ package = [t \in Tops |-> Missing]
        /\ made = {} /\ routed = {}

Next == \/ \E t \in Tops : Impl(t) \/ Bitstream(t) \/ Xsa(t) \/ Boot(t) \/ Package(t)
        \/ CleanSynth \/ Fail
        \/ CreateProject \/ Route \/ WriteCheckpoint \/ WriteBitstream
        \/ WriteHwPlatform \/ ValidateHwPlatform
        \/ BuildComponents \/ NoDeviceTree \/ RemoveSdt \/ CopySdt
        \/ Bootgen \/ OverlayPy \/ Dtc \/ ShellJson

Spec == Init /\ [][Next]_vars

-----------------------------------------------------------------------------
(* Properties                                                              *)

Artefact == Builds \cup {None}

\* The types; and what a command reads is there when it reads it.
TypeOK == /\ style \in Styles /\ top \in Tops /\ builds \in 0 .. MAX_BUILDS
          /\ {prj, dcp, bit, xsa, sdt} \subseteq Artefact
          /\ done \in BOOLEAN
          /\ package \in [Tops -> [bin : Artefact, dtso : Artefact, dtbo : Artefact]]
          /\ todo # <<>> => CASE Head(todo) = "bitstream"  -> dcp # None
                              [] Head(todo) = "components" -> xsa # None
                              [] Head(todo) = "bin"        -> bit # None
                              [] Head(todo) = "dtso"       -> sdt # None
                              [] OTHER -> TRUE

\* The nodes the packaged overlay of t adds to the running system.
PackagedNodes(t) == IF package[t].dtbo = None THEN {}
                    ELSE Overlaid(amba_pl(package[t].dtbo.top, style), t)

\* However the selections, failures and reruns interleave, the device tree in an
\* accelerator's package is of a design of that accelerator (overlay.py 160-177).
TreeIsTheAccelerators ==
    \A t \in Tops : package[t].dtbo # None => package[t].dtbo.top = t

\* A packaged channel waits for the line its port drives (overlay.py 108-116 and
\* system.tcl 140-148), not for a number the generator made up.
ChannelsAreDriven ==
    \A t \in Tops : \A b \in PackagedNodes(t) : \A c \in b.channels :
        c.interrupts = pl_ps_irq0[c.kind]

\* The accelerator's node offers exactly the channels its driver claims (.duplex):
\* fewer and probe fails, more and one of them has no port behind it.
ClientHasItsChannels ==
    \A t \in Tops : package[t].dtbo # None =>
        \E b \in PackagedNodes(t) :
            /\ b.ip = package[t].dtbo.top
            /\ {d.name : d \in b.dmas} =
                   IF package[t].dtbo.top \in Duplex THEN {"tx", "rx"} ELSE {"tx"}

\* Nothing in a package refers to what neither it nor the board's tree has.
ReferencesResolve ==
    \A t \in Tops : \A b \in PackagedNodes(t) :
        b.refs \subseteq Exported \cup {a.label : a \in PackagedNodes(t)}

\* A checkpoint, a handoff and all that is made of them are of a routed design,
\* also when impl has failed half way over an older one (xsa.tcl 10-11).
OnlyRoutedDesigns ==
    {dcp, bit, xsa, sdt} \cup {package[t].bin : t \in Tops} \subseteq routed \cup {None}

\* When bitstream, xsa and boot have succeeded, in order, since the latest impl,
\* an overlay command that succeeds packages that build and nothing older.
FreshFlowIsCoherent ==
    [][ ShellJson /\ {"bitstream", "boot"} \subseteq made =>
            package[top].bin = prj /\ package[top].dtbo = prj ]_vars

\* An overlay is named after the accelerator it was built from (README.md 179,
\* overlay.sh 13).
NamedAfterItsAccelerator == [][ ShellJson => package[top].bin.top = top ]_vars
=============================================================================
