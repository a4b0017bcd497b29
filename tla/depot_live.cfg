CONSTANTS
    Hash <- TinyHash
    Trees <- TinyTrees
    Kids <- TinyKids
    Refs = {"m"}
    Goals = {"u"}
    Comments = {"plain","multi"}
    MaxLog = 2
    None = None
    Modes = {"gc"}
    Overlap = TRUE
    Prune = TRUE
    CommitFail = TRUE
    NoMem = FALSE
    Torn = FALSE
    Crash = FALSE
    Kill = FALSE
    Ordered = FALSE
SPECIFICATION FairSpec
CHECK_DEADLOCK FALSE
INVARIANTS NewObjectsSurvive
PROPERTIES NewestOnlyByCommit CommitReturns MaintReturns
