CONSTANTS
    n1 = n1
    n2 = n2
    Names = {n1, n2}
    PathMax = 2
    Data = {"e"}
    Empty = "e"
    Size <- DataSize
    Quota = 0
    Creds <- ThreeUsers
    FileMode <- UserRW
    DirMode <- Shared
    Modes <- ChmodModes
    MaxNodes = 2
    NoMem = FALSE
    Listers <- NoListers
    InCallback = {}
    PathBuf = 6
    PathLen = 1
    PatternLen = 1
    NameLen = 1
SYMMETRY NameSymmetry
VIEW Lasting
SPECIFICATION MCSpec
CHECK_DEADLOCK FALSE
PROPERTIES ImplementsTree
