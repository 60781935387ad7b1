SPECIFICATION Spec
CONSTANTS
    StartEquity = 2
    StartNav = 2
    Navs = {1, 2, 4}
    Amounts = {1}
    Kinds <- MCKinds
    HistoryReliable = FALSE
    SnapshotAtomic = FALSE
    MaxGap = 1
    MaxTime = 3
    MaxUnitized = 2
    MaxFaults = 1
INVARIANTS
    TypeOK
    NoFakePerformance
    NothingSkipped
    AppliedWereUnitized
PROPERTIES
    ManualReviewBlocks
