SPECIFICATION FairSpec
CONSTANTS
    CoreCount = 4
    Bsp = 1
    ARCH_INFO_SIZE = 168
    PAGE = 4096
INVARIANTS
    IInv
    KernelReady
    OwnResources
PROPERTIES
    StartInfoFrozen
    AllEnterKernel
    ImplementsRendezvous
CHECK_DEADLOCK FALSE
