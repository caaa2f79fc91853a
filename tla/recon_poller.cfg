SPECIFICATION PollerFairSpec
CONSTANTS
    o1 = o1
    ann = ann
    k1 = k1
    k2 = k2
    Cids = {o1}
    AccountOf <- MCAccountOf
    Cycles = {k1, k2}
    Streams = TRUE
    Moves = {"PARTIALLY_FILLED", "FILLED", "CANCELED"}
    Rungs = 2
    DowngradeAfter = 2
INVARIANT AnnouncedOutcomesHold
PROPERTIES ImplementsReconciliation MirrorsVenue PolledRowsMoveOn OutagesDowngrade
CHECK_DEADLOCK FALSE
