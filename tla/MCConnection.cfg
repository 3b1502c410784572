SPECIFICATION FairSpec
CONSTANTS
    Calls = 3
    Requests = {"reply", "throws", "unknown", "overflow"}
    SlowClient = TRUE
INVARIANTS
    TypeOK
    OneWaiter
    OneResponse
    FileIoIsAwaited
PROPERTIES
    RequestIsAnswered
    BreakHalts
    StopEndsLoop
    RemoteIoFinishes
\* The loop ends, and so does a client that has closed.
CHECK_DEADLOCK FALSE
