\* ClosedOnlyByCommit states docs/exec.md line 13; the code breaks it.
SPECIFICATION ExecSpec
CONSTANTS
    TotalFrames = 6
    MaxReturned = 4
    LastPage = 6
    StackTop = 6
    MaxMappings = 4
    InitialStackPages = 1
    MaxStackPages = 2
    MaxTables = 1
    Runtimes = {r1, r2}
    r1 = r1
    r2 = r2
    FirstPages = {2}
    MaxImage = 1
    MaxHeap = 2
    MaxCloexec = 1
    MaxPrepares = 2
    MaxLeaked = 1
PROPERTY ClosedOnlyByCommit
CHECK_DEADLOCK FALSE
