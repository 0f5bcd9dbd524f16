SPECIFICATION HeaderRulesSpec
CONSTANTS
    locA = locA
    locB = locB
    W = 2
    Blocks = {"http", "srv", locA, locB}
    Root = "http"
    Parent <- MCParent
    Builds = {FALSE}
    Lines <- MCLines
    Wildcards = {"x-*"}
    BadNames = {""}
    Builtins <- MCBuiltins
    IfTokens = {"if=c"}
    IfNotTokens = {"if!=c"}
    Uncompilable = {}
    NULL = NULL
    MaxRules = 3
    Keys = {"x-a", "x-b", "x-*"}
SYMMETRY Locations
INVARIANTS
    IdsArePositions
    MergeSound
    ServedWhereWritten
    RunsAsWritten
    WritesFit
PROPERTY MergedStays
CHECK_DEADLOCK FALSE
