CONSTANTS
    Total = 6
    Word = 2
    Huge = 2
    MaxRef = 3
    MaxHolders = 4
SPECIFICATION Spec
INVARIANTS
    HintSound
    FreeCount
    HeldFrames
PROPERTY
    ImplementsPool
CHECK_DEADLOCK FALSE
