CONSTANTS
    Procs = {1}
    Frames = {f1, f2, f3, f4}
    Blocks = {{f1, f2, f3, f4}}
    NoFrame = NoFrame
    HeapBases = {1}
    Code = {}
    LegacyTop = 3
    IdentityEnd = 3
    PoolPages = {}
    StackBase = 4
    StackTop = 6
    OwnEnd = 10
    Hints = {1, 2}
    MAX_VMAS = 2
    MaxSize = 2
    MaxCalls = 6
    Values = {0}
SPECIFICATION Spec
SYMMETRY FrameSymmetry
INVARIANT NoPageTwice
CHECK_DEADLOCK FALSE
