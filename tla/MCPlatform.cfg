SPECIFICATION Spec
CONSTANTS
    Machines <- MCMachines
    Letters <- MCLetters
    POINTER = 4
    PTM_PAGE_GRANULARITY = 16
    MaxOffset = 47
INVARIANTS
    IsaKept
    OverrunBounded
PROPERTIES
    CompleteTreeBoots
CHECK_DEADLOCK FALSE
