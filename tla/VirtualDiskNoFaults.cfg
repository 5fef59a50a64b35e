CONSTANTS
    MAX_CACHE_ITEMS = 2
    Sectors <- MCSectors
    UINT32_MAX = 9
    MAILBOX_SLOTS = 2
    MaxOps = 6
    Faults <- NoFaults

SPECIFICATION FairSpec

INVARIANTS
    NoReadFails

PROPERTY ReadsReturnLastWrite

CHECK_DEADLOCK FALSE
