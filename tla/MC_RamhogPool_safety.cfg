CONSTANTS
    m1 = m1
    m2 = m2
    k1 = k1
    k2 = k2
    NoCaller = NoCaller
    NoJob = NoJob
    Miners <- MCMiners
    Checkers <- MCCheckers
    NumSimultaneous = 2
    NumWorkers = 1
    NPads = 2
    MaxTip = 1

SPECIFICATION Spec

INVARIANTS
    TypeOK
    PermitSlotAccounting
    PadJobsOwned

PROPERTIES
    MixReadsOwnPads

SYMMETRY Symm
