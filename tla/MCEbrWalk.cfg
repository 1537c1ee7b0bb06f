SPECIFICATION Spec
CONSTANTS
    MAX_DEPTH = 4
    SectorSize = 2
    U32Max = 7
    U64Max = 8
    Logicals <- MCLogicals
    Disks <- MCDisks
    ExtStarts <- MCExtStarts
INVARIANTS
    TypeOK
    ChainFollowsLinks
    CompleteUnlessDepthExceeded
    BoundedVisits
PROPERTIES
    ImplementsEbrChain
    Terminates
