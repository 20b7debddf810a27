CONSTANTS
    Tids = {2}
    Rings = {3}
    RingFlags = {"io"}
    Numbers = {4, 5, 64}
    Flags = {"TRUST_SPAWN"}
    MAX_THREADS = 64
    MAX_DENY_LIST = 2
    MAX_LOG_ENTRIES = 2
    MAX_TOTAL = 2
SPECIFICATION PolicySpec
INVARIANTS
    FourthCheckIdle
PROPERTY
    ImplementsMonitor
