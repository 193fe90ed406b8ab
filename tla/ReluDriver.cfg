\* Two processes writing, reading and changing the slope; any beat may be lost.
SPECIFICATION Spec
CONSTANTS
    Threads = {t1, t2}
    NoThread = NoThread
    NoResult = NoResult
    Tiles = {tileA}
    MAX_BEATS = 2
    BEAT_BYTES = 1
    DUPLEX = TRUE
    ReadCounts = {1, 2}
    SLOPE_MAX = 1
    SLOPE_RESET = 1
SYMMETRY Sym
INVARIANTS
    TypeOK
    NoDeadCallback
    OnlyTimeoutsWedge
PROPERTIES
    TilesAreTransactions
