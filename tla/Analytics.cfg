SPECIFICATION AnalyticsSpec
CONSTANTS
    MaxTime = 2
    Retention = 1
    MaxEvents = 2
    RepairMax = 1
    PrevCloseMax = 1
    MaxWrites = 4
    MaxFields = 1
    MaxUpsets = 3
INVARIANTS
    WritesKept
    FramesSound
PROPERTY
    CompleteKept
CHECK_DEADLOCK FALSE
