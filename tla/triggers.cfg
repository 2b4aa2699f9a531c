CONSTANTS
    Transforms = {t}
    Entities = {e}
    Threads = {d}
    MaxCascadeDepth = 2
SPECIFICATION Spec
PROPERTIES
    WatchersAreFound
CHECK_DEADLOCK FALSE
