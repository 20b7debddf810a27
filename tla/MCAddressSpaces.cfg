CONSTANTS
    PagesPerTable = 2
    LowEnd = 30
    HighEnd = 32
    AliasBase = 34
    KernelPages <- KernelCode
    Pool <- PoolFrames
    Heap <- HeapPages
    AllocBase = 26
    Hints <- HintPages
    MaxPages = 2
    Image <- ImagePages
    FirstStack <- StackPages
    KStack <- KernelStacks
    UStack <- UserStacks
    Spaces = {boot, spawned, respawned}
SYMMETRY Symmetry
SPECIFICATION Spec
INVARIANTS
    UserSeesOnlyUserPages
    GrantedStaysUsable
    OneUseOfAFrame
PROPERTY TouchesOnlyItsPages
CHECK_DEADLOCK FALSE
