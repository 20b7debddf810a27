CONSTANTS
    CoreRegions <- MCCore
    KernelSegment <- MCKernel
    Requests <- MCRequests
    CallerRings = {0, 3}
    Hashes = {h1, h2}
    MAX_REGIONS = 2
    MAX_WATCH_REGIONS = 2
    MAX_PERMITS = 5
    BURST_WINDOW = 1
    BURST_LIMIT = 1
    ALERT_THRESHOLD = 2
    TAMPER_ALERTS = 2
    MaxTick = 2
    MaxAlerts = 3
SPECIFICATION GateSpec
SYMMETRY HashSymmetry
INVARIANTS
    BurstBounded
    AlertsLock
PROPERTY LockIsFinal
CHECK_DEADLOCK FALSE
