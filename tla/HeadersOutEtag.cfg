SPECIFICATION OutSpec
CONSTANTS
    Names = {"etag", "e-tag"}
    Prefix <- NoPrefix
    Pointer <- EtagPointer
    Defaulted = {}
    Lengths = {}
    Ranges = {}
    Types = {}
    Multi = {}
    ValuesOf <- PlainValues
    Produced = {"2"}
    Refused = {"bad"}
    CharsetOf <- Charsets
    OWN = OWN
    EMPTY = EMPTY
    NULL = NULL
    MaxHeaders = 2
    MaxRules = 2
PROPERTY ClearExact
CHECK_DEADLOCK FALSE
