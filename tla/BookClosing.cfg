SPECIFICATION Spec
CONSTANTS
    Epics = {e1}
    Deals = {d1}
    NoDeal = NoDeal
    Rows = {1, 2}
    Openers = {o1}
    Reopeners = {}
    Sweepers = {monitor}
    Buttons = {button}
    SyncJob = TRUE
    ConfirmAttempts = 2
    Events = {"stop_out", "omission", "external", "close_refused", "slow_fill",
              "timeout", "late_confirm"}
INVARIANTS
    RealCloseIsReal
    ClosedExternallyIsGone
