SPECIFICATION VSpec
CONSTANTS
    Cells <- MCCells
    Zero = 0
    BOOT_SIG = 4
    EntryOf <- MCEntryOf
    Requests <- MCRequests
    Indices <- MCIndices
    SectorSize = 2
    U32Max = 7
    U64Max = 11
    STD_HEADS_PER_CYL = 2
    STD_SECTORS_PER_TRACK = 1
    CYL_HIGH = 1
    CYL_LOW = 2
INVARIANTS
    BufferIsPrefix
    OpenByIndex
    VolumesMatchTable
PROPERTIES
    ImplementsRegionRead
    EveryCallReturns
