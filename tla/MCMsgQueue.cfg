CONSTANTS
    Msgs = {m1, m2, m3}
    NoMsg = NoMsg
    IPC_QUEUE_DEPTH = 4
SPECIFICATION Spec
PROPERTY
    ImplementsFifo
