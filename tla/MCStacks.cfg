SPECIFICATION Spec
CONSTANTS
    Stack = {"GENERAL", "SCHEDULE"}
    Kind <- MCKind
    Request <- MCRequest
    StaticSize = 192
    MinChunk = 128
    Alignment = 16
    Slot = {1, 2, 3}
    SlotSize = 1000
    Word = 65536
    MaxCalls = 6
INVARIANTS FreeListSound BlocksOwned
PROPERTY ImplementsHeap
CHECK_DEADLOCK FALSE
