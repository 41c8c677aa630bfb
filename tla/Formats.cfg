SPECIFICATION Spec
CONSTANTS
    Depth = 3
    DiskSectors = 2
    Contents = {1, 2}
    BlockCalls <- BlockRequests

    SectorBytes = 2
    FatEntries = 4
    SectorEntries = 2
    MinClusters = 6
    EocMin = 20
    MaxParts = 2
    MaxSectors = 2
    MaxCalls = 3
    Bpbs <- FatBpbs
    Layouts <- FatLayouts
    Paths <- FatPaths
    Inputs <- FatInputs
    Buffers = {4, 9}
    Upper <- FatUpper

    BlockSize = 24
    InodeSize = 8
    DescriptorBlock = 2
    DescriptorSize = 4
    DescriptorRead = 8
    MaxDirectoryBlocks = 2
    MaxExtents = 3
    MaxOutput = 70
    Ext4Volumes <- Ext4Disks
    Ext4Paths <- Ext4Names

    NodeSize = 2
    SectorUnit = 2
    AddressLimit = 100
    ChunkSlots = 3
    MaxPending = 4
    MaxVisits = 6
    LeafItems = 3
    NodePointers = 3
    MaxSubvolumes = 1
    MaxRead = 4
    BtrfsVolumes <- BtrfsDisks
    BtrfsPaths <- BtrfsNames

    MaxStack = 3
    MaxControl = 3
    MaxMemory = 4
    IntBound = 2
    Instructions <- AllOps
    Later <- LaterOps
    Sections <- AllSections
    MaxBody = 7
    ShortBody = 3
    Fuels = {2, 9}

    PageBytes = 4
    UserLimit = 96
    MaxSegments = 3
    MaxPages = 10
    MaxStrings = 2
    StackBytes = 40
    StackPages = 10
    StackWords = 12
    WordBytes = 2
    MaxInterpreter = 4
    TagBytes = 1
    EntryBytes = 1
    HashBytes = 1
    MaxTags = 14
    MaxNeeded = 2
    MaxSymbols = 4
    MaxBuckets = 2
    MaxBloom = 1
    MaxRelocations = 2
    MaxTable = 5
    MaxTls = 4
    Images <- LoaderImages
    Calls <- LoaderCalls
INVARIANTS
    ReadsSeeWrites
    WriteTakesEffect
    ReadReturnsFile
    SearchFindsFirst
    VerifiedRuns
    ImageAsPlanned
    StackLaidOut
CHECK_DEADLOCK FALSE
