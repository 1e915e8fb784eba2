CONSTANTS
    Opens = 2
    Saves = 2
    Foreign = 0
    Size <- MCDistinct
    OpensAtOnce = 1
    None = None
SPECIFICATION Spec
INVARIANT OwnUploadIsNoConflict
CHECK_DEADLOCK FALSE
