SPECIFICATION Spec
CONSTANTS
    Universe = {"A", "B"}
    Others = {"X"}
    Signals <- MCSignals
    Holdings <- MCHoldings
    Marks = {0, 3}
    ArrivalPrice = 1
    BookPrices = {1, 2, 4}
    MaxAsset = 8
    MaxGross = 10
    MaxMargin = 9
    HalfBuffer = 2
    MinOrder = 5
INVARIANTS
    TradesToNearestEdge
    LegsAddUp
    ReduceOnlyReduces
    GrossStaysBetween
    
\* A plan is made once.
CHECK_DEADLOCK FALSE
