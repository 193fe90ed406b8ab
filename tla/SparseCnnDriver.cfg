\* Two processes writing and reading; beats of two bytes.
SPECIFICATION Spec
CONSTANTS
    Threads = {t1, t2}
    NoThread = NoThread
    NoResult = NoResult
    Tiles = {tileA, tileB}
    MAX_BEATS = 2
    BEAT_BYTES = 2
    DUPLEX = FALSE
    ReadCounts = {7, 8}
SYMMETRY Sym
INVARIANTS
    OnlyTimeoutsWedge
PROPERTIES
    TilesAreTransactions
