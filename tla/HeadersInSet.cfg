SPECIFICATION HeadersSpec
CONSTANTS
    NAlloc = 3
    MaxSlot = 9
    MaxAddr = 6
    Names = {"referer", "host", "connection", "cookie"}
    Prefix <- PtrPrefix
    Plain = {"referer"}
    Checked = {"host"}
    Classified = {"connection"}
    Multi = {"cookie"}
    Connection = "connection"
    Repeatable = {"referer", "cookie"}
    Received = {"u"}
    Values = {"v", "bad"}
    Refused = {"bad"}
    Closing = {"v"}
    EMPTY = EMPTY
    NULL = NULL
    UNSET = UNSET
    MaxHeaders = 3
    MaxRules = 2
INVARIANT SetIsDone
CHECK_DEADLOCK FALSE
