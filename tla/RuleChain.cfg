SPECIFICATION Spec
CONSTANTS
    W = 2
    Keys = {"X-A", "X-B"}
    Shapes <- MCShapes
    MaxRules = 4
INVARIANTS
    ChainExact
    FaultOnlyWithoutMemory
