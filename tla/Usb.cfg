SPECIFICATION Spec
CONSTANTS
    LinkIndex = 3
    RingTrbs = 3
    MaxFields = 4
    MaxKeys = 3
    MaxUsages = 2
    MaxReportBytes = 8
    MaxDescriptor = 20
    MaxSlots = 2
    Models = {"keyboard", "mouse", "storage", "serial", "hub", "broken", "verbose", "bare"}
    Replugs = {"keyboard"}
    QueueCapacity = 3
    MaxStimuli = 3
    MaxStarts = 1
INVARIANTS RingsAgree CompletionMatches SlotBacked KeysFollow
PROPERTY InputArrives
CHECK_DEADLOCK FALSE
