SPECIFICATION FairSpec
CONSTANTS
    Calls = 3
    Requests = {"reply"}
    SlowClient = FALSE
PROPERTY ClosedEndsLoop
CHECK_DEADLOCK FALSE
