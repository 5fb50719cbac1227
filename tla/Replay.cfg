SPECIFICATION Spec
CONSTANTS
    Windows <- MCWindows
    Days <- MCDays
    Knobs <- MCKnobs
    Commodities <- MCCommodities
    Opening <- MCOpening
    FirstClose = 200
    SpreadWidth = 2
    MinStop = 4
    MaxBuffer = 6
    CloseMinute = 8
    GainTarget = 6
    RangePercent = 20
INVARIANTS StopBehindPrice LossWithinRisk OpensPaced
PROPERTIES FollowerTightens GroupPromise BasketDistinct
CHECK_DEADLOCK FALSE
