SPECIFICATION FairSpec
CONSTANTS
    t1 = t1
    d1 = d1
    r1 = r1
    r2 = r2
    u1 = u1
    None = None
    TgUsers <- OneTgUser
    ErpUsers <- OneErpUser
    Requests <- TwoRequests
    Updates <- OneUpdate
    MaxKeys = 1
    MaxOperator = 1
    MaxFailures = 2
    MaxTimeouts = 2
    MaxCrashes = 1
INVARIANTS
    OneHandler
    SecondFollowsFailure
    AckedIsHandled
PROPERTIES
    HandledAtLast
CHECK_DEADLOCK FALSE
