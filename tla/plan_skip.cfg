SPECIFICATION Spec
CONSTANTS
    p1 = p1
    p2 = p2
    NoPlan = NoPlan
    Plans = {p1, p2}
    Steps <- TwoPlans
    MaxTurns = 4
    MaxEdits = 1
PROPERTY WritesApproved
CHECK_DEADLOCK FALSE
