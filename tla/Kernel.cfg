SPECIFICATION Spec
CONSTANTS
    Kinds = {"channel", "ring", "event"}
    WaitSlots = 2
    Capacity = 2
    MaxMessage = 2
    Lengths = {1, 2, 3}
    Buffers = {1, 2}
    Putters = {11, 12, 13}
    Takers = {21, 22, 23}
    Drivers = {a, b, n, u}
    a = a
    b = b
    n = n
    u = u
    NoDriver = NoDriver
    Unmatched = {u}
    NoOps = {n}
    MaxResources = 3
    ProbeResources = 2
    Devices = {d1}
    d1 = d1
    Processes = {p1, p2, p3}
    p1 = p1
    p2 = p2
    p3 = p3
    MaxServices = 2
    MaxServiceGen = 1
    MaxRestarts = 1
    TotalFrames = 6
    MaxReturned = 4
    LastPage = 6
    StackTop = 6
    MaxMappings = 4
    InitialStackPages = 1
    MaxStackPages = 2
    MaxTables = 1
    Runtimes = {r1, r2}
    r1 = r1
    r2 = r2
    FirstPages = {2}
    MaxImage = 1
    MaxHeap = 2
    MaxCloexec = 1
    MaxPrepares = 2
    MaxLeaked = 1
    Records = 2
    MaxSequence = 5
INVARIANTS
    NoLostWakeup
    EndpointBacked
    StoppedLeavesNothing
    StaleHandlesRejected
    FramesAccounted
    PagesInPlace
    CommittedSurvives
    RingIntact
PROPERTY ImplementsFifo
CHECK_DEADLOCK FALSE
