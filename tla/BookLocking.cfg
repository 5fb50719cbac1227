SPECIFICATION Spec
CONSTANTS
    Epics = {e1}
    Deals = {d1, d2}
    NoDeal = NoDeal
    Rows = {1, 2, 3, 4}
    Openers = {o1, o2}
    Reopeners = {o1}
    Sweepers = {}
    Buttons = {}
    SyncJob = TRUE
    ConfirmAttempts = 2
    Events = {"shared_epic", "external", "stop_out", "omission", "slow_fill",
              "timeout", "crash"}
SYMMETRY DealSymmetry
INVARIANTS
    OneOwnRowPerEpic
    DropOnlyRejected
