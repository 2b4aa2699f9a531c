\* One call of any kind, against any remote, with small caps.
SPECIFICATION FairSpec
CONSTANTS
    Jobs = {j1}
    MaxPages = 3
    RecordsCap = 4
    PageSize = 2
    MaxBatch = 3
INVARIANTS
    TypeOK
    RunIsTruthful
    LandedIsAnnounced
    CapsHold
PROPERTIES
    JobEnds
CHECK_DEADLOCK FALSE
