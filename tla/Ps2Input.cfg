SPECIFICATION FairSpec
CONSTANTS
    MaxHandlers = 3
    Deferring = {"timer"}
    RingSize = 3
    EventSize = 2
    DrainLimit = 2
    PollLimit = 1
    CommandRetries = 2
    MaxStimuli = 2
    PacketLength = 2
    ScanCodes <- MCScanCodes
    Modifier <- MCModifier
    PauseCodes <- MCPauseCodes
    Packets <- MCPackets
    FirstMarked <- MCFirstMarked
    ClockOff <- MCClockOff
    Translates <- MCTranslates
    HeldAtBoot <- MCHeldAtBoot
    Overflows <- MCOverflows
CHECK_DEADLOCK TRUE
INVARIANTS
    NoDeferredLost
    InputRight
PROPERTIES
    QueuesAreFifo
    ControllerDrained
