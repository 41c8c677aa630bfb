SPECIFICATION Spec
CONSTANTS
    MaxInodes = 3
    MaxChildren = 2
    MaxHandles = 1
    MaxMounts = 3
    MaxNamespaces = 2
    MaxDentries = 1
    MaxComponents = 2
    FileMax = 1
    MaxHeld = 1
    Names = {"a", "b"}
    Paths <- MCPaths
    Modes = {{"r"}}
    MountKinds <- MCMountKinds
INVARIANTS
    TreeOK
    HandlesValid
PROPERTY MountKept
CHECK_DEADLOCK FALSE
