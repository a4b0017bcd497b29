CONSTANTS
    Hash <- SharedHash
    Trees <- SharedTrees
    Kids <- SharedKids
    Goals = {"r", "s"}
    Served = {"plain", "htree", "junk", "fake"}
    Bundles <- SomeBundles
    None = None
    NoMem = TRUE
    Collects = TRUE
    Crash = TRUE
    Names = {1, 2, 3}
    NameHash <- Colliding
    Vals = {"u", "v"}
    NBuckets = 2
SPECIFICATION MCFairSpec
CHECK_DEADLOCK FALSE
INVARIANTS TypeOK OnlyVerified CommitComplete EncodingsAgree VerifiedLookups EditsExact
PROPERTIES CompleteStays FetchReturns
