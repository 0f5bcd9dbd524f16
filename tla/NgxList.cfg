SPECIFICATION Spec
CONSTANTS
    NAlloc = 4
    MaxSlot = 10
    MaxAddr = 7
INVARIANTS
    TypeOK
    LastIsTail
    ScanExact
    PushSafe
    SpansDisjoint
PROPERTIES
    Refinement
