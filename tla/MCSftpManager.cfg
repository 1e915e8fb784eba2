CONSTANTS
    t1 = t1
    t2 = t2
    o1 = o1
    o2 = o2
    Term = {t1, t2}
    Op = {o1, o2}
    Kinds = {"list", "refresh", "cd", "command", "upload"}
    Files = 2
    None = None
SPECIFICATION FairSpec
INVARIANT SessionsBelong
INVARIANT FilesFollowTheTerminal
PROPERTY RemovedTerminalsAreSilent
PROPERTY CallsSettle
CHECK_DEADLOCK FALSE
