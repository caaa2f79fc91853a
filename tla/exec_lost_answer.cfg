SPECIFICATION SpecExec
CONSTANTS
    r1 = r1
    r2 = r2
    r3 = r3
    a = a
    b = b
    f1 = f1
    f2 = f2
    f3 = f3
    p1 = p1
    btc = btc
    Cids = {a, f1, f2}
    Reqs <- TwoReqs
    CidOf <- SameIntent
    FreshCid <- Fresh2
    Keys <- MCKeys
    KeyOf <- OneKey2
    Slow = {}
    Overlap = FALSE
    LostAnswers = TRUE
    LedgerFaults = FALSE
    MaxCrashes = 0
    Probes = {}
    Streams = FALSE
    Moves = {"FILLED"}
INVARIANT RejectedMeansNotLanded
CHECK_DEADLOCK FALSE
