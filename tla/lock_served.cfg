SPECIFICATION FairSpec
CONSTANTS
    c1 = c1
    c2 = c2
    c3 = c3
    d1 = d1
    d2 = d2
    d3 = d3
    btc = btc
    eth = eth
    Keys <- MCKeys
    Calls <- AllCalls
    KeyOf <- KeyOfAll
    SlowCalls = {c1, c2}
INVARIANTS TypeOK TimersMatchEntries WaitersQueued MutualExclusion
PROPERTIES FirstComeFirstServed EveryWaiterServed
