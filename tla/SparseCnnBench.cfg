\* Every test of the testbench, AxiLiteMaster up to two cycles slower on each channel.
SPECIFICATION BSpec
CONSTANTS
    DATA_W = 2
    ACC_W = 5
    SKIP_W = 3
    AXIL_DATA_W = 5
    ID_VALUE = 21
    MAX_TILE = 6
    WrAddrs = {"CTRL"}
    RdAddrs <- Regs
    WrData <- CtrlWords
    Pairs <- MCPairs
    MAX_LAG = 2
    POLL_LIMIT = 100
    RESET_EDGES = 2
    PausePattern <- MCPauses
    Tests <- MCTests
    Lengths <- MCLengths
    Mixes <- MCMixes
    AWAITED = 1
INVARIANTS
    AssertionsHold
PROPERTIES
    TestsEnd
