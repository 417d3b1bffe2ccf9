SPECIFICATION FairSpec
CONSTANTS
    PMM_MAP_MAX_ENTRIES = 6
    PTM_PAGE_GRANULARITY = 4
    Regions <- MCRegions
    Address <- MCAddress
    PageCounts = {0, 1, 2}
    AllocTypes = {1, 2}
    FixedAddresses = {8}
    ENTRY_SIZE = 1
    MaxOwned = 3
INVARIANTS
    StrongInv
    MapSorted
    AllocationInOneEntry
    StaleSlotsReported
    SnapshotComplete
PROPERTIES
    ImplementsPageKinds
    CallsReturn
CHECK_DEADLOCK FALSE
