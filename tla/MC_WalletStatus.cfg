CONSTANTS
    d1 = d1
    bad = bad
    Dests <- MCDests
    BadDest = bad
    SendLists <- MCSendLists
    TxFee = 1
    FeesRequired = {1, 2}
    MaxBalance = 2
SPECIFICATION Spec
INVARIANTS ContextRelocksOnlyAtScopeEnd
PROPERTIES SendScopeRestoresLock
