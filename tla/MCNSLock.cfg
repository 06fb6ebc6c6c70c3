SPECIFICATION NSFairSpec
CONSTANTS
    PartitionCount = 5
    Trusted = {2}
    WithInit = {2, 3}
    Levels = {1, 3}
    Threads = {t1, t2}
    NoThread = NoThread
    AddressCount = 16
    NsCode <- LowCode
    NsData <- LowData
    NsOther = {8}
    NsUnmapped = {9}
    SData <- HighData
    Scratch <- Middle
CHECK_DEADLOCK FALSE
INVARIANTS ChainMatches NoAnomaly Isolated StacksBalanced CallInv OneCaller
INVARIANTS CallerKnown PermissionExact
PROPERTIES StartsUp DispatchReturns
