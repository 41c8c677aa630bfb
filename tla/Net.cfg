SPECIFICATION Spec
CONSTANTS
    QueueSize = 2
    RxBuffers = 2
    IndexMod = 4
    NoFrame = NoFrame
    RxPerPoll = 2
    RetryLimit = 1
    MaxArp = 2
    MaxPayload = 1
    SeqMod = 8
    ClientIsns = {1, 6}
    PeerIsn = 3
    MaxFrames = 3
    MaxCommands = 2
INVARIANTS BuffersOwned LeaseFromServer AnswerMatchesQuery
PROPERTIES AckedWasReceived ClientsSettle
