CONSTANTS
    MAX_THREADS = 4
    QueueCap = 1
    Tags = {a}
    Dests = {2, 3}
    SleepTicks = {1, 2}
    MaxTick = 3
    Boots <- LoadedBoots
    MaySpawn = FALSE
SPECIFICATION Spec
INVARIANT ContextSaved
CHECK_DEADLOCK FALSE
