SPECIFICATION WorkerSpec
CONSTANTS
    ours = ours
    rewrite = rewrite
    lua = lua
    Handlers <- AllHandlers
    Movers = {ours, lua}
    Arrays <- MCArrays
    Requests = {r1, r2}
    NONE = NONE
    MaxPasses = 2
    MaxPauses = 1
    Cycles = {c1, c2}
    MaxBlocks = 2
    MaxConfigs = 3
    MaxCrashes = 2
INVARIANTS
    EachOnce
    ResumesItsOwn
    RunsAtTail
    FilterServes
PROPERTY PassEnds
CHECK_DEADLOCK FALSE
