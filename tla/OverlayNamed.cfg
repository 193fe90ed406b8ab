\* A bitstream left from the accelerator built before.
SPECIFICATION Spec
CONSTANTS
    Tops <- MCTops
    Duplex <- MCDuplex
    MAX_BUILDS = 2
PROPERTIES
    NamedAfterItsAccelerator
