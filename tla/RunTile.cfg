\* The script and another process; channels that may stall, an accelerator that
\* may swallow a beat.
SPECIFICATION RSpec
CONSTANTS
    Threads = {t1, t2}
    runner = t1
    NoThread = NoThread
    NoResult = NoResult
    Tiles = {tileA}
    MAX_BEATS = 2
    BEAT_BYTES = 1
    DUPLEX = TRUE
    ReadCounts = {1, 2}
    SLOPE_MAX = 1
    SLOPE_RESET = 1
    RELU_TILES <- MCTiles
    OtherCalls <- MCOtherCalls
INVARIANTS
    VerdictIsFair
    TilesTakeInterrupts
PROPERTIES
    CallsReturn
    RunEnds
