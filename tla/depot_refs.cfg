CONSTANTS
    Hash <- RecHash
    Trees <- RecTrees
    Kids <- RecKids
    Refs = {"m","n"}
    Goals = {"t","r"}
    Comments = {"plain"}
    MaxLog = 1
    None = None
    Modes = {"gc", "gcpack"}
    Overlap = FALSE
    Prune = FALSE
    CommitFail = TRUE
    NoMem = FALSE
    Torn = TRUE
    Crash = FALSE
    Kill = TRUE
    Ordered = FALSE
SPECIFICATION Spec
CHECK_DEADLOCK FALSE
INVARIANTS TypeOK ProtectedIntact
PROPERTIES OnlyGcForgets
