SPECIFICATION Spec
CONSTANTS
    Tickers <- MCTickers
    Current <- Flat
    Destination <- PairDestination
    Plan <- PairPlan
    DustLots = {0}
    EvenPrices = {0}
    MaxReprices = 1
    DeadmanRequired = FALSE
    MaxStarts = 2
    MaxLost = 1
    MaxManual = 1
INVARIANTS
    NoOverfill
    OrdersAreClaimed
    OverfillBoundedByLost
PROPERTIES
    UnbookedFillsBlockSend
\* The command is not started for ever: the bounds of MaxStarts stop the model.
CHECK_DEADLOCK FALSE
