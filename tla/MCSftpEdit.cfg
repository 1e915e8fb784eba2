CONSTANTS
    Opens = 2
    Saves = 2
    Foreign = 2
    Size <- MCSize
    OpensAtOnce = 1
    None = None
SPECIFICATION FairSpec
INVARIANT TypeOK
INVARIANT SyncedMeansUploaded
PROPERTY SeenChangesAreAsked
PROPERTY SavesSettle
CHECK_DEADLOCK FALSE
