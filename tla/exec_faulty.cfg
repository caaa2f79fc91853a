SPECIFICATION FairSpecExec
CONSTANTS
    r1 = r1
    r2 = r2
    r3 = r3
    a = a
    b = b
    f1 = f1
    f2 = f2
    f3 = f3
    p1 = p1
    btc = btc
    Cids = {a, b, f1, f2, f3}
    Reqs <- ThreeReqs
    CidOf <- TwoIntents
    FreshCid <- Fresh3
    Keys <- MCKeys
    KeyOf <- OneKey3
    Slow = {r1}
    Overlap = TRUE
    LostAnswers = TRUE
    LedgerFaults = TRUE
    MaxCrashes = 1
    Probes = {}
    Streams = FALSE
    Moves = {}
INVARIANTS ExecTypeOK SubmitsSerialized
PROPERTY RequestsFinish
CHECK_DEADLOCK FALSE
