SPECIFICATION FairSpec
CONSTANTS
    r1 = r1
    r2 = r2
    r3 = r3
    ann = ann
    bob = bob
    room = room
    k1 = k1
    k2 = k2
    Reqs <- ThreeReqs
    ThreadOf <- OneRoom
    UserOf <- TwoUsers
    AskedMode <- Asked
    Defaults <- Papers
    Halted = {ann}
    Composed = {r3}
    Toggles = {k1}
INVARIANTS TypeOK OpenWaitsAnswerable OneModalPerRoom SentWasApproved RevokedIsOver SwitchSeenStops LiveOrdersAudited
PROPERTY RequestsEnd
CHECK_DEADLOCK FALSE
