\* The REST API alone (no agent stream is open): two transforms, one run.
SPECIFICATION Spec
CONSTANTS
    s1 = s1
    s2 = s2
    sBad = sBad
    Transforms = {t1, t2}
    Sqls = {s1, s2, sBad}
    BadSqls = {sBad}
    Stmts <- StmtsValue
    Rewritten <- RewrittenValue
    Runs = {r1}
    EventLoop = rest
    StreamThreads = {}
    NONE = NONE
INVARIANTS
    ApprovedSqlWasReviewed
PROPERTIES
    ImplementsGate
CHECK_DEADLOCK FALSE
