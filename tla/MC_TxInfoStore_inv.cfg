CONSTANTS
    a1 = a1
    a2 = a2
    o1 = o1
    o2 = o2
    Addrs <- MCAddrs
    Origins <- MCOrigins
    KeyStrings <- MCKeyStrings
    Strings <- MCStrings
    IDStrings <- MCIDStrings
    Empty <- MCEmpty
    MaxKeyType = 4
    Requests <- MCRequests
    MaxRows = 3

SPECIFICATION Spec

INVARIANTS
    LatestIsNewest
    UniqueValueSingleHolder
