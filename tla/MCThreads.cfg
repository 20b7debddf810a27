CONSTANTS
    MAX_THREADS = 4
    QueueCap = 2
    Tags = {a}
    Dests = {2, 3}
    SleepTicks = {1, 2}
    MaxTick = 3
    Boots <- AllBoots
    MaySpawn = TRUE
SPECIFICATION FairSpec
INVARIANTS
    OneRunning
    NoLostWakeup
    KernelThreadReady
PROPERTIES
    GivesUpCpu
    WakesForAReason
    CountsThreads
    ReadyRuns
CHECK_DEADLOCK FALSE
