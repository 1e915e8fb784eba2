CONSTANTS
    o1 = o1
    o2 = o2
    Op = {o1, o2}
    dir = dir
    dot = dot
    None = None
    Path <- MCPath
    Resolve <- MCResolve
    Home = dir
    Commands <- AllCommands
    Slices = 1
    Chunks = 2
    MemoryCap = 1
    ReadMax = 1
SPECIFICATION FairSpec
INVARIANT DownloadsAreWhole
INVARIANT NoSocketLeft
PROPERTY EveryCallSettles
CHECK_DEADLOCK FALSE
