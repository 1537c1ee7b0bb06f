SPECIFICATION Spec
CHECK_DEADLOCK FALSE
CONSTANTS
    STD_HEADS_PER_CYL = 2
    STD_SECTORS_PER_TRACK = 3
    CYL_HIGH = 2
    CYL_LOW = 2
    ONES = 3
    FILE_MAGICS <- MCMagics
    Printable <- MCPrintable
    KbMagics <- MCKbMagics
    FAT_AT = 2
    FAT_OEM_IDS <- MCOemIds
    PAGE_AT = 4
    PAGESPACE1 = 2
    ChsCases <- MCChsCases
    Regions <- MCRegions
    MinLens <- MCMinLens
    Bases <- MCBases
    SignatureLists <- MCSignatureLists
    Windows <- MCWindows
INVARIANTS
    ChsVerdictIsExact
    WipeIsShortPeriod
    CarveFindsEveryHeader
    StringsAreTheRuns
    CollisionsAreTheSharedSignatures
    PartialWindowMatches
