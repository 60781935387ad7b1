SPECIFICATION Spec
CONSTANTS
    VolsDated = TRUE
    Interval = 2
    Window = 3
    MidnightAt = 2
    Overshoot = 0
    AskedDates = {}
    Forms = {"good", "broken", "insane"}
    MaxClock = 3
    MaxPulls = 4
    MaxStarts = 1
INVARIANTS
    StaleIsRetried
\* Commands are started MaxStarts times only.
CHECK_DEADLOCK FALSE
