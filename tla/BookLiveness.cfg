SPECIFICATION FairSpec
CONSTANTS
    Epics = {e1}
    Deals = {d1}
    NoDeal = NoDeal
    Rows = {1, 2}
    Openers = {o1}
    Reopeners = {}
    Sweepers = {}
    Buttons = {}
    SyncJob = TRUE
    ConfirmAttempts = 2
    Events = {"stop_out", "timeout", "crash", "omission", "external"}
PROPERTIES
    EventuallyTracked
    StopOutRecorded
    ProvisionalSettles
