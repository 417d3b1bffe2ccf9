SPECIFICATION Spec
CONSTANTS
    CoreCount = 2
    Bsp = 0
    ARCH_INFO_SIZE = 168
    PAGE = 4096
INVARIANT UsableIsFree
CHECK_DEADLOCK FALSE
