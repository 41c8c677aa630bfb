SPECIFICATION ServiceSpec
CONSTANTS
    Drivers = {a, b, n, u}
    a = a
    b = b
    n = n
    u = u
    NoDriver = NoDriver
    Unmatched = {u}
    NoOps = {n}
    MaxResources = 3
    ProbeResources = 2
    Devices = {d1}
    d1 = d1
    Processes = {p1, p2, p3}
    p1 = p1
    p2 = p2
    p3 = p3
    MaxServices = 2
    MaxServiceGen = 1
    MaxRestarts = 1
INVARIANT QuiescedHoldsNothing
CHECK_DEADLOCK FALSE
