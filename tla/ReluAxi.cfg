\* The stream, the registers and the tile accounting together: any slope, stalls,
\* tiles apart and back to back, the longest of them wrapping the beat counter.
SPECIFICATION FairSpec
CONSTANTS
    DATA_W = 3
    SLOPE_W = 2
    COUNT_W = 1
    AXIL_DATA_W = 3
    SLOPE_RESET = 1
    ID_VALUE = 5
    MAX_TILE = 3
    WrAddrs <- CtrlSlope
    RdAddrs = {}
    WrData <- MCWrData
    Xs <- MCXs
INVARIANTS
    TypeOK
    OneResponsePerWrite
    StreamIsGolden
    BusySpansTile
    SerialCountIsExact
PROPERTIES
    TilesComplete
