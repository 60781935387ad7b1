SPECIFICATION Spec
CONSTANTS
    Tickers <- MCTickers
    Current <- TrimCurrent
    Destination <- TrimDestination
    Plan <- TrimPlan
    DustLots = {1}
    EvenPrices = {}
    MaxReprices = 1
    DeadmanRequired = TRUE
    MaxStarts = 2
    MaxLost = 0
    MaxManual = 0
INVARIANTS
    ArmedWhenDead
\* The command is not started for ever: the bounds of MaxStarts stop the model.
CHECK_DEADLOCK FALSE
