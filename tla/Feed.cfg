SPECIFICATION FairSpec
CONSTANTS
    Epics = {e1, e2}
    Cap = 1
    Watchers = {health}
    HealthCheck = health
    MaxFaults = 2
CHECK_DEADLOCK FALSE
INVARIANTS
    OneSession
PROPERTIES
    OpenEpicsServed
