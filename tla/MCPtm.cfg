SPECIFICATION FairClientSpec
CONSTANTS
    LevelCount = 4
    PageSize <- MCPageSize
    TopAddress = 32
    BootTable <- MCBootTable
    Requests <- MCRequests
    Snapshots <- MCSnapshots
    hhdm_offset = 16
    PhysicalTop = 16
    BAD = 8
    Trampoline <- MCTrampoline
    MaxEarly = 2
INVARIANTS
    PageDecides
    DirectMapped
    RemapNeedsSharedPage
    TrampolineInBoth
PROPERTIES
    ImplementsAddressSpace
    HandoffPrepared
CHECK_DEADLOCK FALSE
