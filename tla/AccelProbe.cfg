CONSTANTS
    p1 = p1
    p2 = p2
    Layers <- MCLayers
    Designs <- MCDesigns
    Processes <- MCProcesses
SPECIFICATION FairSpec
INVARIANTS TypeOK PublishedIsUsable AttributeReachesDevice NothingLeaks
PROPERTIES ReleasedInReverse BindingSettles
