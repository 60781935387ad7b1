SPECIFICATION Spec
CONSTANTS
    Procs = {p1, p2}
    Runs = {r1, r2}
    NoRun = NoRun
    MayCrash = TRUE
    MaxPlans = 2
SYMMETRY Symmetry
INVARIANTS
    TypeOK
    HoldersAgree
    LockCoversSession
    SentIntentsKept
    ReleasesAreSafe
PROPERTIES
    ClaimsTheDay
\* No plan is started beyond MaxPlans: the model stops where yolo does not.
CHECK_DEADLOCK FALSE
