SPECIFICATION Spec
CONSTANTS
    Rank <- MCRank
    Literal = "literal"
    Unknown = "unknown"
    NoState = NoState
    Settings <- MCSettings
    Worker = {w1, w2}
    Inode = {i1, i2, i3, i4}
    NoInode = NoInode
    Blank = Blank
SYMMETRY Symmetry
INVARIANTS
    TypeOK
    ContractsAreFull
    FragmentsAreFresh
    StateIsOfOneHead
    LoneWritesAreAtomic
CHECK_DEADLOCK FALSE
