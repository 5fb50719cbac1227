SPECIFICATION Spec
CONSTANTS
    MaxMinute = 5
    DayLength = 5
    Retention = 2
    MaxBuffer = 3
    Reloaded = 2
    MaxWire = 2
    MaxCrashes = 1
    MaxFailed = 1
    Sources = {"stream", "poll"}
CHECK_DEADLOCK FALSE
INVARIANTS
    BufferIsTail
    BufferedIsSaved
PROPERTIES
    RecordsKept
    RestartResumes
