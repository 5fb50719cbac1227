SPECIFICATION FairSpec
CONSTANTS
    Epics = {e1}
    Selectors = {analysis, hourly}
    Reverters = {sync}
    Users = {user}
    Strategies <- OneRolling
    Funds = 1
    AllowReopen = FALSE
    NoEpic = NoEpic
    Events = {}
PROPERTY
    EveryTaskEnds
