CONSTANTS
    n1 = n1
    n2 = n2
    Names = {n1, n2}
    PathMax = 2
    Data = {"e", "x"}
    Empty = "e"
    Size <- DataSize
    Quota = 1
    Creds <- OneAdmin
    FileMode <- UserRW
    DirMode <- Shared
    Modes <- NoModes
    MaxNodes = 3
    NoMem = FALSE
    Listers <- OneAdmin
    InCallback = {"write", "mkdir"}
    PathBuf = 6
    PathLen = 7
    PatternLen = 4
    NameLen = 3
SYMMETRY NameSymmetry
VIEW Lasting
SPECIFICATION MCSpec
CHECK_DEADLOCK FALSE
INVARIANTS TreeShape UsageExact PathsExact GlobExact
PROPERTIES ImplementsTree ListVisitsAll
