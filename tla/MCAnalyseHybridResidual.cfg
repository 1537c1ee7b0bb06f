SPECIFICATION Spec
CONSTANTS
    U32Max = 8
    U64Max = 48
    SectorSize = 2
    MAX_DEPTH = 3
    FIRST_USABLE = 1
    EBR_INDEX_BASE = 4
    PROTECTIVE_UNDERSIZE_TOLERANCE = 2
    GAP_SAMPLE_BYTES = 4
    PRE_PARTITION_BENIGN_LBA = 3
    MIB1_SECTORS = 4
    LEGACY_TRACK = 3
    STD_HEADS_PER_CYL = 2
    STD_SECTORS_PER_TRACK = 1
    CYL_HIGH = 1
    CYL_LOW = 2
    ONES = 3
    FILE_MAGICS <- MCMagics
    Images <- MCImages
INVARIANT HybridHasRealPartition
