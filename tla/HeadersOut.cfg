SPECIFICATION OutSpec
CONSTANTS
    Names = {"server", "content-length", "accept-ranges", "content-type", "cache-control", "c-a"}
    Prefix <- MCPrefix
    Pointer <- MCPointer
    Defaulted = {"server"}
    Lengths = {"content-length"}
    Ranges = {"accept-ranges"}
    Types = {"content-type"}
    Multi = {"cache-control"}
    ValuesOf <- MCValues
    Produced = {"p"}
    Refused = {"bad"}
    CharsetOf <- Charsets
    OWN = OWN
    EMPTY = EMPTY
    NULL = NULL
    MaxHeaders = 2
    MaxRules = 2
INVARIANTS
    OutTypeOK
    OutPointersExact
    ChainLinked
PROPERTIES
    OutEffectExact
    LengthPartedBy
CHECK_DEADLOCK FALSE
