\* The event loop and one agent stream write a table that is read with a small,
\* the default and a large limit.
SPECIFICATION FairCacheSpec
CONSTANTS
    Threads = {w1}
    EventLoop = rest
    Limits = {1, 2, 3}
    CacheLimit = 2
    MaxCommits = 3
INVARIANTS
    CacheTypeOK
    FreshUnlessBlamed
PROPERTIES
    ReadsGoForward
    EventuallyFresh
CHECK_DEADLOCK FALSE
