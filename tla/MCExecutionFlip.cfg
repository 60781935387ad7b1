SPECIFICATION FairSpec
CONSTANTS
    Tickers <- MCTickers
    Current <- FlipCurrent
    Destination <- FlipDestination
    Plan <- FlipPlan
    DustLots = {1}
    EvenPrices = {}
    MaxReprices = 1
    DeadmanRequired = TRUE
    MaxStarts = 3
    MaxLost = 0
    MaxManual = 0
INVARIANTS
    TypeOK
    ArmedUntilCleared
    OneOrderPerIntent
    SendOnBookedFills
    CloseBeforeOpen
    CompleteIsQuiet
    DustRulesAgree
    PreparedSizeStands
PROPERTIES
    TradesSerially
    MarkOnlyVerified
    NeverSentTwice
    FinishedAttemptsStay
    EveryRunEnds
    OrdersResolve
\* The command is not started for ever: the bounds of MaxStarts stop the model.
CHECK_DEADLOCK FALSE
