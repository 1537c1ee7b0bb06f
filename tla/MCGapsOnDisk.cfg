SPECIFICATION Spec
CONSTANTS
    SectorSize = 2
    U64Max = 9
    FIRST_USABLE = 1
    Layouts <- MCProperLayouts
    Sizes <- MCWholeDisk
INVARIANT GapsOnDisk
