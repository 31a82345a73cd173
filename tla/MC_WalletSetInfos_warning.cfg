CONSTANTS
    a1 = a1
    a2 = a2
    bad = bad
    o0 = o0
    o1 = o1
    Addrs <- MCAddrs
    OwnAddrs <- MCOwnAddrs
    BadAddr = bad
    NoOrigin = o0
    Origins <- MCOrigins
    KeyStrings <- MCKeyStringsW
    Strings <- MCStrings
    IDStrings <- MCIDStringsW
    Empty <- MCEmpty
    MaxKeyType = 3
    Requests <- MCRequests
    Batches <- MCBatchesW
    MaxRows = 1

SPECIFICATION WSpec

INVARIANTS
    IrreversibleInfosWarned
