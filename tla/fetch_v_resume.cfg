CONSTANTS
    Hash <- SharedHash
    Trees <- SharedTrees
    Kids <- SharedKids
    Goals = {"r", "s"}
    Served = {"plain"}
    Bundles = {}
    None = None
    NoMem = FALSE
    Collects = FALSE
    Crash = FALSE
    Names = {1, 2, 3}
    NameHash <- Colliding
    Vals = {"u", "v"}
    NBuckets = 2
SPECIFICATION MCSpec
CHECK_DEADLOCK FALSE
INVARIANTS CommittedComplete
