SPECIFICATION BootSpec
CONSTANTS
    PTM_PAGE_GRANULARITY = 4
    SEGMENT_SIZE = 2
    Images <- MCImages
    PhysicalPages = 6
    TopAddress = 16
    BootTables <- MCBootTables
    BOOTINFO_SIZE = 3
    FRAMEBUFFER_SIZE = 2
    MODULE_SIZE = 2
    ACPI_PAGES = 1
INVARIANTS
    ImageLoaded
    KernelInfoFound
    BootInfoIntact
CHECK_DEADLOCK FALSE
