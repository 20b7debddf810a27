CONSTANTS
    NPages = 5
    MAX_ORDER = 3
    PAGE_SIZE = 2
    DFREE_BUF_SIZE = 1
    MaxHeld = 3
    Requests <- MCRequests
SPECIFICATION HeapSpec
INVARIANTS
    BuddySound
    HeldApart
    LiveTotalAgrees
CHECK_DEADLOCK FALSE
