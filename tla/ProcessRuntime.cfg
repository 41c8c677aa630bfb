SPECIFICATION RuntimeSpec
CONSTANTS
    MaxProcesses = 3
    MaxThreads = 4
    MaxGen = 4
    MaxFds = 1
    StdFds = {0}
    Signals = {}
    MaxLaunches = 4
INVARIANTS
    OneRunning
    ImageReturns
CHECK_DEADLOCK FALSE
