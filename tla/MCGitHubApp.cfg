SPECIFICATION Spec
CONSTANTS
    Delivery = {"push", "again", "added", "gone", "bad"}
    EventOf <- MCEventOf
    ForOf <- MCForOf
    Installation = {"i1"}
    Client = {"t1"}
    RequireTimestamp = TRUE
    TokenProvider = TRUE
    TTL = 2
    MaxSkew = 1
    TokenSkew = 1
    MaxLifetime = 2
    MaxClock = 3
    MaxLog = 2
    MaxLives = 2
INVARIANTS
    TypeOK
    AtMostOnce
    ReceiptKept
    UninstallForgets
CHECK_DEADLOCK FALSE
