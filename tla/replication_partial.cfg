CONSTANTS
    p = p
    a = a
    b = b
    c = c
    Node = {p, a, b, c}
    Publisher = p
    Open = {a, b, c}
    Reading = {a}
    Closest <- FourClosest
    Replicas = 1
    MaxFaults = 0
SPECIFICATION Spec
PROPERTY CopiesToppedUp
CHECK_DEADLOCK FALSE
