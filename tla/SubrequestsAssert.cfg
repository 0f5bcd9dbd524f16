SPECIFICATION StockSpec
CONSTANTS
    main = main
    sub = sub
    subsub = subsub
    Main = main
    Subs <- MCSubs
    Parent <- MCParent
    NULL = NULL
    NAlloc = 3
    MaxSlot = 5
    MaxChanges = 2
    MaxAddr = 2
CHECK_DEADLOCK FALSE
INVARIANT NeverAborts
