CONSTANTS
    Procs = {1, 2}
    Frames = {f1, f2, f3, f4}
    Blocks = {{}, {f1, f2, f3, f4}}
    NoFrame = NoFrame
    HeapBases = {3}
    Code = {}
    LegacyTop = 4
    IdentityEnd = 4
    PoolPages = {2}
    StackBase = 5
    StackTop = 7
    OwnEnd = 13
    Hints = {3, 8, 12}
    MAX_VMAS = 4
    MaxSize = 2
    MaxCalls = 3
    Values = {0, 1}
SPECIFICATION Spec
SYMMETRY FrameSymmetry
INVARIANTS AreasDisjoint RefsCountLeaves AreasCountPages
PROPERTY ImplementsPrivateMemory
CHECK_DEADLOCK FALSE
