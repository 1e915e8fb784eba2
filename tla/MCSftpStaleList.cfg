CONSTANTS
    o1 = o1
    o2 = o2
    o3 = o3
    Op = {o1, o2, o3}
    dir = dir
    dot = dot
    None = None
    Path <- MCPath
    Resolve <- MCResolve
    Home = dir
    Commands <- ListCommands
    Slices = 2
    Chunks = 1
    MemoryCap = 1
    ReadMax = 1
SPECIFICATION Spec
CHECK_DEADLOCK FALSE
INVARIANT ListsSeeFinishedWrites
