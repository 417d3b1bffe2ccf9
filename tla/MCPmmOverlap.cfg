SPECIFICATION OverlapSpec
CONSTANTS
    PMM_MAP_MAX_ENTRIES = 8
    PTM_PAGE_GRANULARITY = 4
    Regions <- MCRegions
    Address <- MCAddress
    PageCounts = {}
    AllocTypes = {}
    FixedAddresses = {}
    ENTRY_SIZE = 1
    MaxOwned = 0
    MaxReports = 3
INVARIANTS
    HighestTypeWins
PROPERTIES
    AllReported
CHECK_DEADLOCK FALSE
