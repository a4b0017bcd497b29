CONSTANTS
    Handles = {"a", "b", "c"}
    Procs = {"p", "q"}
    ProcOf <- TwoAndOne
    Nobody = Nobody
    MaxGen = 3
    OneEach = TRUE
SPECIFICATION FairHandleSpec
CHECK_DEADLOCK FALSE
INVARIANTS Exclusive
PROPERTIES NewReturns
