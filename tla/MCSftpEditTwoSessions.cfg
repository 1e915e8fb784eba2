CONSTANTS
    Opens = 2
    Saves = 2
    Foreign = 1
    Size <- MCSize
    OpensAtOnce = 2
    None = None
SPECIFICATION Spec
INVARIANT OneSessionPerFile
CHECK_DEADLOCK FALSE
