\* One api_pull connector and one of another type.
SPECIFICATION FairSpec
CONSTANTS
    Connectors = {c1, c2}
    ApiPulls = {c1}
    Crons = {hourly, daily}
    BadCrons = {malformed}
    NONE = NONE
INVARIANTS
    TypeOK
    JobsFollowRows
    NoForeignSchedule
PROPERTIES
    DeletedIsNotPulled
CHECK_DEADLOCK FALSE
