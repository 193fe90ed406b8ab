\* The AXI4-Lite channels, the tile FSM and the data path together: every kind of
\* CTRL write; pairs that add and skip, in registers narrow enough to wrap.
SPECIFICATION FairSpec
CONSTANTS
    DATA_W = 2
    ACC_W = 2
    SKIP_W = 1
    AXIL_DATA_W = 3
    ID_VALUE = 5
    MAX_TILE = 2
    WrAddrs = {"CTRL"}
    RdAddrs <- MCRdAddrs
    WrData <- CtrlWrData
    Pairs <- AddAndSkip
INVARIANTS
    TypeOK
    PulsesAreIssuedWrites
    AcceptedBeatsAccumulate
    ResultIsLastTile
PROPERTIES
    StatusFence
    BusyDoneTurnover
    StartedTileCompletes
