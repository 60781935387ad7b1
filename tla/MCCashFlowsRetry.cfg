SPECIFICATION Spec
CONSTANTS
    StartEquity = 2
    StartNav = 2
    Navs = {1, 2, 4}
    Amounts = {1, 2}
    Kinds <- MCFlowKinds
    HistoryReliable = TRUE
    SnapshotAtomic = TRUE
    MaxGap = 1
    MaxTime = 3
    MaxUnitized = 2
    MaxFaults = 0
INVARIANTS
    UnitizedOnce
