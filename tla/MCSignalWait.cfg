SPECIFICATION Spec
CONSTANTS
    VolsDated = TRUE
    Interval = 2
    Window = 2
    MidnightAt = 2
    Overshoot = 1
    AskedDates = {0}
    Forms = {"good", "insane"}
    MaxPulls = 4
    MaxClock = 3
    MaxStarts = 2
INVARIANTS
    AcceptedIsCurrent
    ArchiveAgrees
    RebalancedWasPlanned
    WindowUsedUp
PROPERTIES
    TradesTodaysSignal
    EveryCommandEnds
\* Commands are started MaxStarts times only.
CHECK_DEADLOCK FALSE
