SPECIFICATION Spec
CONSTANTS
    Procs = {p1}
    Runs = {r1, r2}
    NoRun = NoRun
    MayCrash = FALSE
    MaxPlans = 2
SYMMETRY Symmetry
INVARIANTS
    UnstartedDayIsFree
\* No plan is started beyond MaxPlans: the model stops where yolo does not.
CHECK_DEADLOCK FALSE
