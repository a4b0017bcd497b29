CONSTANTS
    Hash <- TinyHash
    Trees <- TinyTrees
    Kids <- TinyKids
    Refs = {"m"}
    Goals = {"t","u"}
    Comments = {"plain"}
    MaxLog = 2
    None = None
    Modes = {"gc", "gcpack"}
    Overlap = FALSE
    Prune = FALSE
    CommitFail = TRUE
    NoMem = FALSE
    Torn = FALSE
    Crash = TRUE
    Kill = FALSE
    Ordered = TRUE
SPECIFICATION Spec
CHECK_DEADLOCK FALSE
INVARIANTS LiveRootsIntact IInv
