CONSTANTS
    CACHE_LINES = 3
    Sectors = 4
    head = head
    tail = tail
    x = x
    Zero = Zero
    Parts <- MCParts
    Values <- MCValues
    Writes <- MCWrites
    Zeroed = {1}
    ReadErrors = {3}
    WriteErrors = {0}
SPECIFICATION Spec
INVARIANTS
    ListIsRecency
    Coherent
PROPERTY ImplementsStore
