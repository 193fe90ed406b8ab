\* Every test of the testbench, AxiLiteMaster up to two cycles slower on each channel.
SPECIFICATION BSpec
CONSTANTS
    DATA_W = 3
    SLOPE_W = 2
    COUNT_W = 3
    AXIL_DATA_W = 3
    SLOPE_RESET = 1
    ID_VALUE = 5
    MAX_TILE = 6
    WrAddrs <- MCWrAddrs
    RdAddrs <- Regs
    WrData <- MCWrData
    Xs <- MCXs
    Picks <- MCPicks
    MAX_LAG = 2
    POLL_LIMIT = 12
    RESET_EDGES = 2
    PausePattern <- NoPauses
    Tests <- MCTests
    Lengths <- MCLengths
INVARIANTS
    AssertionsHold
PROPERTIES
    TestsEnd
