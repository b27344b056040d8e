SPECIFICATION Spec
CONSTANTS
    c1 = c1
    c2 = c2
    i1 = i1
    i2 = i2
    Client = {c1, c2}
    Key = {"k1"}
    StrayKey = "k2"
    Inode = {i1, i2}
    NoFile = "none"
    TTL = 1
    MaxClock = 2
    MaxPuts = 2
SYMMETRY Symmetry
INVARIANTS
    TypeOK
    HitIsAuthentic
PROPERTY
    ImplementsContract
CHECK_DEADLOCK FALSE
