\* The AXI4-Lite and FSM control: one operand pair, every kind of CTRL write.
SPECIFICATION Spec
CONSTANTS
    DATA_W = 2
    ACC_W = 2
    SKIP_W = 1
    AXIL_DATA_W = 3
    ID_VALUE = 5
    MAX_TILE = 2
    WrAddrs <- MCWrAddrs
    RdAddrs <- Regs
    WrData <- CtrlWrData
    Pairs <- OnePair
PROPERTIES
    StartIgnoredWhileBusy
