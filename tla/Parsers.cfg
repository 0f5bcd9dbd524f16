SPECIFICATION ParsersSpec
CONSTANTS
    Char <- MCChar
    Hosts <- MCHosts
    Upper = {"A"}
    Lower = {"a"}
    Digit <- MCDigit
    Marks = {"-"}
    LowerCase <- MCLowerCase
    SIZE = 12
    TypeChar <- MCTypeChar
    Values <- MCTypes
    SEMICOLON = SEMICOLON
    SPACE = SPACE
    QUOTE = QUOTE
    NAME = NAME
    OLD = OLD
    NONE = NONE
    TYPE_SIZE = 12
    Lines <- MCLines
    Blocks = {"http", "srv"}
    Root = "http"
    Parent <- MCParent
    Builds = {TRUE, FALSE}
    Builtins <- MCBuiltins
    Wildcards = {"x-*"}
    BadNames = {""}
    IfTokens = {"if=c"}
    IfNotTokens = {"if!=c"}
    Uncompilable = {}
    W = 2
    MaxRules = 1
    NULL = NULL
INVARIANTS
    TypeOK
    HostExact
    CharsetExact
    CharsetInValue
    GrammarExact
CHECK_DEADLOCK FALSE
