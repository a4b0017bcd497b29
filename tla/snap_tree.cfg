CONSTANTS
    Names = {"f", "g"}
    NameOrder <- Alphabetical
    PathMax = 2
    Data = {"e", "x"}
    Empty = "e"
    Size <- DataSize
    Quota = 1
    Creds <- Both
    Users <- OnlyOwner
    FileMode <- UserRW
    DirMode <- UserRW
    Modes <- WriteOnly
    Bases <- AtRootAndBelow
    MaxNodes = 2
SPECIFICATION Spec
CHECK_DEADLOCK FALSE
INVARIANTS TypeOK RestoreOnlyAdds ChecksExact TreeFsckFinds
PROPERTIES CommittedWhole RestoreComplete
