\* Tiles whose first beat meets the tlast of the tile before.
SPECIFICATION Spec
CONSTANTS
    DATA_W = 3
    SLOPE_W = 2
    COUNT_W = 2
    AXIL_DATA_W = 3
    SLOPE_RESET = 1
    ID_VALUE = 5
    MAX_TILE = 2
    WrAddrs <- CtrlOnly
    RdAddrs <- Regs
    WrData <- EnableData
    Xs <- OneX
INVARIANTS
    CountIsLastTile
