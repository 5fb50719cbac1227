SPECIFICATION Spec
CHECK_DEADLOCK FALSE
CONSTANTS
    Catalogue <- MCCatalogue
    Unresolvable <- MCUnresolvable
    Allowed <- MCAllowed
    MaxFunds = 8
    BatchSize = 3
    Cap = 2
    CatchUp <- MCCatchUp
    SlotAt <- MCSlotAt
    Seeds = {"dax"}
    Scenarios <- MCScenarios
    DayLength = 2
    LastTick = 3
    MaxCrashes = 1
INVARIANTS BlockLastsItsDay ModesKept RefreshesAgree
PROPERTIES SlotCovered CandleMonitored
