SPECIFICATION Spec
CONSTANTS
    Epics = {e1, e2}
    Selectors = {analysis, hourly}
    Reverters = {sync}
    Users = {}
    Strategies <- MCStrategies
    Funds = 1
    AllowReopen = FALSE
    NoEpic = NoEpic
    Events = {"lost_reply"}
SYMMETRY Symmetry
INVARIANTS
    RolledWithinLimit
    SeriesIsWhole
    OneLateOrder
