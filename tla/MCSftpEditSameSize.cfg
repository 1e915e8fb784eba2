CONSTANTS
    Opens = 1
    Saves = 2
    Foreign = 1
    Size <- MCSize
    OpensAtOnce = 1
    None = None
SPECIFICATION Spec
PROPERTY ChangesAreAsked
CHECK_DEADLOCK FALSE
