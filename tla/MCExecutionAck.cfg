SPECIFICATION Spec
CONSTANTS
    Tickers <- MCTickers
    Current <- TrimCurrent
    Destination <- TrimDestination
    Plan <- TrimPlan
    DustLots = {1}
    EvenPrices = {}
    MaxReprices = 1
    DeadmanRequired = TRUE
    MaxStarts = 3
    MaxLost = 1
    MaxManual = 0
INVARIANTS
    ReconciledBeforeNew
\* The command is not started for ever: the bounds of MaxStarts stop the model.
CHECK_DEADLOCK FALSE
