CONSTANTS
    NPorts = 2
    MAX_SLOTS = 4
    TableSizes = {2}
    HOTPLUG_INTERVAL = 1
SPECIFICATION Spec
INVARIANT SlotServesItsPort
