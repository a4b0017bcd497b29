CONSTANTS
    h1 = h1
    h2 = h2
    Hash = {h1}
    Zero = Zero
    None = None
    Slots = 2
    Pages = 2
    MaxRoots = 2
    NoMem = TRUE
    ZeroPut = FALSE
SPECIFICATION Spec
VIEW Lasting
CHECK_DEADLOCK FALSE
INVARIANTS CountsAgree AllocFindsFree
PROPERTIES ImplementsMap
