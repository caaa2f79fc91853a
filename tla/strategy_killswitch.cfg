SPECIFICATION Spec
CONSTANTS
    s1 = s1
    s2 = s2
    Insts = {s1}
    BlockThreshold = 2
    Rearms = FALSE
    LimitInsts = {}
    MaxTicks = 2
    MaxQty = 2
    MaxEdits = 2
    MaxCrashes = 0
INVARIANT HaltsHold
CHECK_DEADLOCK FALSE
