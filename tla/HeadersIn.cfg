SPECIFICATION MCSpec
CONSTANTS
    NAlloc = 3
    MaxSlot = 9
    MaxAddr = 6
    Names = {"x-a", "x-b", "referer", "host", "connection", "cookie"}
    Prefix <- BothPrefixes
    Plain = {"referer"}
    Checked = {"host"}
    Classified = {"connection"}
    Multi = {"cookie"}
    Connection = "connection"
    Repeatable = {"x-a", "x-b", "referer", "cookie"}
    Received = {"u"}
    Values = {"v", "bad"}
    Refused = {"bad"}
    Closing = {"v"}
    EMPTY = EMPTY
    NULL = NULL
    UNSET = UNSET
    MaxHeaders = 4
    MaxRules = 2
INVARIANTS
    HeadersTypeOK
    ReadsHeaders
    PointersExact
    EffectExact
    ChainRebuilt
    FieldsFollow
PROPERTIES
    RuleEnds
    ListSpec
CHECK_DEADLOCK FALSE
