\* An edit of a stream overlaps an approval of the REST API.
SPECIFICATION Spec
CONSTANTS
    s1 = s1
    s2 = s2
    sBad = sBad
    Transforms = {t1}
    Sqls = {s1, s2, sBad}
    BadSqls = {sBad}
    Stmts <- StmtsValue
    Rewritten <- RewrittenValue
    Runs = {r1, r2}
    EventLoop = rest
    StreamThreads = {w1}
    NONE = NONE
INVARIANT ApprovedSqlWasReviewed
CHECK_DEADLOCK FALSE
