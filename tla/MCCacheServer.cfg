CONSTANTS
    MAX_CACHE_ITEMS = 3
    Keys <- MCKeys
    Versions <- MCVersions
    SEMA_VALUES = 4
    MAILBOX_SLOTS = 2
    MaxRequests = 5

SPECIFICATION Spec

INVARIANTS
    CacheBounded
    CacheCoherent
    OldestFirst
    NoneLeftEarly

PROPERTY RequestsAreServed

CHECK_DEADLOCK FALSE
