CONSTANTS
    NPorts = 2
    MAX_SLOTS = 5
    TableSizes = {1, 2}
    HOTPLUG_INTERVAL = 2
SPECIFICATION Spec
INVARIANTS EntriesHaveOwners NoGhost ListIsLive
PROPERTY UnpluggedIsForgotten
