SPECIFICATION MCSpec
CONSTANTS
    n1 = n1
    n2 = n2
    Nodes <- TwoNodes
    Rank <- TwoRanks
    PoolSize = 3
    Counts = {1, 2}
    ProbeRetransmits = 3
    Lossy = FALSE
    Window = 2
INVARIANTS
    StationAgrees
PROPERTIES
    ImplementsBlocks
    LossyConflictEnds
