SPECIFICATION FairSpec
CONSTANTS
    s1 = s1
    s2 = s2
    Insts = {s1, s2}
    BlockThreshold = 2
    Rearms = FALSE
    LimitInsts = {s2}
    MaxTicks = 2
    MaxQty = 2
    MaxEdits = 3
    MaxCrashes = 1
INVARIANTS TypeOK StatusDecided TranchesFillOnce PositionMatchesOrders
PROPERTY DueInstancesEvaluated
CHECK_DEADLOCK FALSE
