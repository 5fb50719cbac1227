SPECIFICATION Spec
CONSTANTS
    Epics = {e1, e2}
    Deals = {d1, d2}
    NoDeal = NoDeal
    Rows = {1, 2, 3, 4}
    Openers = {o1}
    Reopeners = {o1}
    Sweepers = {}
    Buttons = {}
    SyncJob = TRUE
    ConfirmAttempts = 2
    Events = {"stop_out", "timeout", "crash", "omission", "external"}
SYMMETRY DealSymmetry
INVARIANT
    NoOrphan
