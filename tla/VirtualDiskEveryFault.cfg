CONSTANTS
    MAX_CACHE_ITEMS = 2
    Sectors <- MCSectors
    UINT32_MAX = 9
    MAILBOX_SLOTS = 2
    MaxOps = 3
    Faults <- EveryFault

SPECIFICATION FairSpec

INVARIANTS
    RightSector
    NoDataRace
    RequestNotClobbered

PROPERTY ReadTerminates

CHECK_DEADLOCK FALSE
