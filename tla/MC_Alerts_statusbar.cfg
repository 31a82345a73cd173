CONSTANTS
    AlertHashes <- MCAlertHashes
    Priority <- MCPriority
    Expiration <- MCExpiration
    Signed <- MCSigned
    ForMe <- MCForMe
    CancelsRel <- MCCancelsRel
    MaxTime = 2

SPECIFICATION Spec

INVARIANTS
    StatusBarShowsHighestPriority
