CONSTANTS
    t1 = t1
    t2 = t2
    o1 = o1
    o2 = o2
    Term = {t1, t2}
    Op = {o1, o2}
    Kinds = {"upload"}
    Files = 2
    None = None
SPECIFICATION Spec
INVARIANT CommandsGoWhereAsked
CHECK_DEADLOCK FALSE
