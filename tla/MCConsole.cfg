SPECIFICATION FairSpec
CONSTANTS
    ApCount = 2
    MAX_CALLS = 2
    TEST_RETRIES = 2
    MAX_POLLS = 2
    FIFO_DEPTH = 3
INVARIANTS
    IInv
    PortReady
    OnlyLogged
    NoOverrun
PROPERTIES
    CallsEnd
CHECK_DEADLOCK FALSE
