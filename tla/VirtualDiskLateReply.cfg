CONSTANTS
    MAX_CACHE_ITEMS = 2
    Sectors <- MCSectors
    UINT32_MAX = 9
    MAILBOX_SLOTS = 2
    MaxOps = 2
    Faults <- LateReplies

SPECIFICATION Spec

INVARIANT RightSectorEver

CHECK_DEADLOCK FALSE
