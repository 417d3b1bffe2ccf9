SPECIFICATION Spec
CONSTANTS
    CoreCount = 2
    Bsp = 0
    ARCH_INFO_SIZE = 2
    PAGE = 4
INVARIANT ArchInfoAllocated
CHECK_DEADLOCK FALSE
