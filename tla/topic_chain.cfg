CONSTANTS
    t1 = t1
    t2 = t2
    x1 = x1
    x2 = x2
    Threads = {t1, t2}
    Keys = {"here", "there"}
    Home = {"here"}
    Refs = {"r"}
    Roots = {x1, x2}
    MaxSeq = 3
    MaxStored = 3
    None = None
SYMMETRY Interchangeable
SPECIFICATION Spec
CHECK_DEADLOCK FALSE
INVARIANTS PublishInv HeadStored WalkExact
PROPERTIES FreshAdvances
