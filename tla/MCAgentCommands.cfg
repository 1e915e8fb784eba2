CONSTANTS
    w1 = w1
    w2 = w2
    t1 = t1
    t2 = t2
    c1 = c1
    c2 = c2
    None = None
    Window = {w1, w2}
    Term = {t1, t2}
    Call = {c1, c2}
    Home <- TogetherHome
    Named <- NamedByEach
    Asked <- AskedByEach
    HubDeadline = 5
    ConfirmLimit = 3
    GraceLimit = 1
    MaxTimeout = 4
    DefaultTimeout = 2
SPECIFICATION Spec
INVARIANT RunsWhereConfirmed
INVARIANT OneCollectionPerTerminal
INVARIANT AnswersAreTheirOwn
INVARIANT QueueWaitIsBounded
CHECK_DEADLOCK FALSE
