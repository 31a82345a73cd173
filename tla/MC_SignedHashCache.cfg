CONSTANTS
    g = g
    b1 = b1
    b2 = b2
    km = km
    ko = ko
    nk = nk
    Ids <- MCIds
    Chain <- MCChain
    Keys <- MCKeys
    MasterKey = km
    NoKey = nk
    Messages <- MCMessages

SPECIFICATION Spec

INVARIANTS
    TrustedHashesOnly
