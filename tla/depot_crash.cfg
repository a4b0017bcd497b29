CONSTANTS
    Hash <- TinyHash
    Trees <- TinyTrees
    Kids <- TinyKids
    Refs = {"m"}
    Goals = {"t","u"}
    Comments = {"plain","long","multi"}
    MaxLog = 2
    None = None
    Modes = {"gc", "gcpack"}
    Overlap = FALSE
    Prune = FALSE
    CommitFail = TRUE
    NoMem = FALSE
    Torn = TRUE
    Crash = TRUE
    Kill = FALSE
    Ordered = TRUE
SPECIFICATION Spec
CHECK_DEADLOCK FALSE
INVARIANTS ProtectedIntact
