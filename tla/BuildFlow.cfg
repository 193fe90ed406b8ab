\* Every sequence of commands over two builds, either accelerator selected each time.
SPECIFICATION Spec
CONSTANTS
    Tops <- MCTops
    Duplex <- MCDuplex
    MAX_BUILDS = 2
INVARIANTS
    TypeOK
    TreeIsTheAccelerators
    ChannelsAreDriven
    ClientHasItsChannels
    ReferencesResolve
    OnlyRoutedDesigns
PROPERTIES
    FreshFlowIsCoherent
