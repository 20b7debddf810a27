CONSTANTS
    Segments <- MCSegments
    HEADER_LBA = 1
    Boots <- MCBoots
    MAX_RETRY = 3
    MaxBoots = 3
SPECIFICATION Spec
INVARIANT CompleteIsDurable
PROPERTIES ImplementsAtomicInstall BootGoesOn
CHECK_DEADLOCK FALSE
