\* One transform, the REST API and one agent stream, two runs that can overlap.
SPECIFICATION FairSpec
CONSTANTS
    s1 = s1
    s2 = s2
    sBad = sBad
    Transforms = {t1}
    Sqls = {s1, sBad}
    BadSqls = {sBad}
    Stmts <- StmtsValue
    Rewritten <- RewrittenValue
    Runs = {r1, r2}
    EventLoop = rest
    StreamThreads = {w1}
    NONE = NONE
INVARIANTS
    TypeOK
    GateHoldsUnlessRaced
    RunsOnlyReviewedSql
    RunningIsOwned
    OutcomeIsTruthful
PROPERTIES
    NewTextNeedsApproval
    HistoryIsFinal
    RunSettles
CHECK_DEADLOCK FALSE
