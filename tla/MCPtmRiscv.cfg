SPECIFICATION FairSpec
CONSTANTS
    LevelCount = 4
    PageSize <- MCPageSize
    TopAddress = 16
    BootLevels = 3
    BootTable <- MCBootTable
    Requests <- MCRequests
    Slots <- MCSlots
    hhdm_offset = 8
    BAD = 8
INVARIANTS
    PagesWellPlaced
PROPERTIES
    ImplementsAddressSpace
    MapReturns
CHECK_DEADLOCK FALSE
