SPECIFICATION Spec
CONSTANTS
    Rank <- MCRank
    Literal = "literal"
    Unknown = "unknown"
    NoState = NoState
    Settings <- AmbiguousSettings
    Worker = {w1, w2}
    Inode = {i1, i2, i3, i4}
    NoInode = NoInode
    Blank = Blank
SYMMETRY Symmetry
INVARIANT ContractsAreFull
CHECK_DEADLOCK FALSE
