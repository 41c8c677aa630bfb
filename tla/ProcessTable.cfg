SPECIFICATION Spec
CONSTANTS
    MaxProcesses = 3
    MaxThreads = 3
    MaxGen = 1
    MaxFds = 1
    StdFds = {0}
    Signals = {7}
INVARIANTS
    TypeOK
    ParentRunning
    ThreadsOwned
    ThreadKept
    StaleIdsRejected
CHECK_DEADLOCK FALSE
