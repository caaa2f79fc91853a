SPECIFICATION Spec
CONSTANTS
    a = a
    b = b
    p1 = p1
    p2 = p2
    Cids = {a}
    Probes = {p1}
    Streams = FALSE
    Moves = {"PARTIALLY_FILLED", "FILLED"}
PROPERTY RestTransitionsAnnounced
CHECK_DEADLOCK FALSE
