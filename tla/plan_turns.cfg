SPECIFICATION FairSpec
CONSTANTS
    p1 = p1
    p2 = p2
    NoPlan = NoPlan
    Plans = {p1, p2}
    Steps <- TwoPlans
    MaxTurns = 4
    MaxEdits = 1
INVARIANTS TypeOK StepsRunOnce OneWritePerTurn ActivePlanIsLive DependenciesMet
PROPERTIES FailureStopsWrites EndedPlansRest RoomFreed
CHECK_DEADLOCK FALSE
