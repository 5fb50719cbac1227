SPECIFICATION FairSpec
CONSTANTS
    Calls = {1, 2, 3}
    Requests <- MCRequests
    MaxAttempts = 2
    NoCall = NoCall
    Events = {"cancel", "stop"}
CHECK_DEADLOCK FALSE
INVARIANTS
    TypeOK
    OvertakenOnce
PROPERTIES
    CallOnceSpec
    EveryCallAnswered
