CONSTANTS
    p = p
    a = a
    b = b
    c = c
    Node = {p, a, b, c}
    Publisher = p
    Open = {a, b, c}
    Reading = {a}
    Closest <- FourClosest
    Replicas = 1
    MaxFaults = 1
SPECIFICATION Spec
INVARIANTS TypeOK HealersConverge
PROPERTIES PassesGoForward EveryPassEnds HoldersToppedUp
CHECK_DEADLOCK FALSE
