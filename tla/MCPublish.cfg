SPECIFICATION PublishSpec
CONSTANTS
    PMM_MAP_MAX_ENTRIES = 16
    PTM_PAGE_GRANULARITY = 8
    Regions <- MCRegions
    Address <- MCAddress
    PageCounts = {1, 6}
    AllocTypes = {1, 2}
    FixedAddresses = {}
    ENTRY_SIZE = 1
    MaxOwned = 4
    pagedb_entry_size = 3
    hhdm_offset = 200
    BootHhdmSizes = {0, 154}
    kernel_base = 500
    MaxTables = 1
    MM_ENTRY_SIZE = 1
INVARIANTS
    PagedbComplete
    PagedbMappedOnce
    PagedbInside
    PublishedTruth
PROPERTIES
    DescriptionEnds
CHECK_DEADLOCK FALSE
