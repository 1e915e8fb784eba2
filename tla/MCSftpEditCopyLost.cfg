CONSTANTS
    Opens = 2
    Saves = 2
    Foreign = 1
    Size <- MCSize
    OpensAtOnce = 1
    None = None
SPECIFICATION Spec
INVARIANT UnsyncedCopyIsKept
CHECK_DEADLOCK FALSE
