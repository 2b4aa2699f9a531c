CONSTANTS
    Pulls = {p, q}
    Clients = {c, d}
    TTLs = {2}
    Buffer = 1
    MaxDelay = 1
    MaxTokens = 3
SPECIFICATION Spec
SYMMETRY Interchangeable
INVARIANTS
    TypeOK
    RowKeepsUp
    OldClientDiesOut
    CacheHandsOutLiveTokens
